---- MODULE Spec2Model ----
(***************************************************************************)
(* Model of the order import of XchUpshop, src/src/import_orders_into_sms.py *)
(* run_import: validate the SQL connection, log in to the Upshop API,      *)
(* create an export job, poll it, then write one TMP_REC_BAT header row    *)
(* per order and one TMP_REC_DTL detail row per downloaded item.           *)
(*                                                                         *)
(* Text values (vendor numbers, order numbers, SKUs) are sequences of      *)
(* one-character strings, so that concatenation and strip() are computed.  *)
(***************************************************************************)
EXTENDS Integers, Sequences, FiniteSets, TLC

VARIABLES
    pc,            \* position of run_import
    conn,          \* run_import's local conn: "None", "open" or "closed"
    db_sessions,   \* SQL Server sessions opened by pyodbc.connect and not closed
    http,          \* history: the Upshop API endpoints requested so far
    auth_token,    \* access_token of the /login response
    job_id,        \* job_id of the /export/orders response
    last_status,   \* wait_for_job_completion: last_status
    elapsed,       \* wait_for_job_completion: time.time() - start, in poll intervals
    data_items,    \* job_status.get("data", [])
    totals,        \* the five run counters
    seen_headers,  \* set of vendor_case_key already inserted
    line_number,   \* next detail line number
    idx,           \* position of the for loop in data_items (1-based)
    vendor_cache,  \* vendor number -> vendor name
    TMP_REC_BAT,   \* committed header rows, in insertion order
    TMP_REC_DTL,   \* committed detail rows, in insertion order
    hdr_calls,     \* history: calls of send_rechdr (item index, outcome)
    dtl_calls,     \* history: calls of send_recdtl (item index, line number, outcome)
    outcome,       \* how run_import ended: "running", "returned" or "raised"
    error,         \* the exception that leaves run_import, "None" if none
    summary,       \* the "Run summary" lines logged, each with the counters it shows
    vendor_lookups, \* history: the calls of get_vendor_name_cached (SpecVendor)
    polls,         \* history of one wait_for_job_completion call: its polls
    status_events, \* "Job status changed" events of one wait_for_job_completion call
    tx_pending,    \* rows inserted on conn and not committed: its open transaction
    requests,      \* history: the calls of request_json (SpecRequest)
    ui_taken,      \* StatusUI: number of ui_queue messages pump_queue has taken
    ui_calls,      \* callbacks the worker scheduled with ui.root.after, not yet run
    window         \* StatusUI: what the status window shows

vars == <<pc, conn, db_sessions, http, auth_token, job_id, last_status, elapsed,
          data_items, totals, seen_headers, line_number, idx, vendor_cache,
          TMP_REC_BAT, TMP_REC_DTL, hdr_calls, dtl_calls, outcome, error, summary,
          vendor_lookups, polls, status_events, tx_pending,
          requests, ui_taken, ui_calls, window>>

----------------------------------------------------------------------------
(* Bounds of the model *)

\* longest result set returned by the export job
MaxItems == 2
\* longest the job is polled before the timeout, in poll intervals
TimeoutTicks == 2

----------------------------------------------------------------------------
(* Values *)

\* Python's None, as a value no text equals
None == <<"None">>

\* vendor_number values of the API; "1" + "23" and "12" + "3" read the same
Vendors == { <<"1">>, <<"1", "2">> }
\* case_order_number values of the API
Orders == { <<"2", "3">>, <<"3">> }
\* sku values of the API: missing, empty, blank and a real item code
Skus == { None, <<>>, <<" ">>, <<"A">> }

Records == [vendor_number : Vendors, case_order_number : Orders, sku : Skus]

\* result sets of at most n records
RECURSIVE ResultSets(_)
ResultSets(n) ==
    IF n = 0 THEN { <<>> }
    ELSE LET shorter == ResultSets(n - 1)
         IN  shorter \cup { Append(s, r) : s \in { t \in shorter : Len(t) = n - 1 },
                                            r \in Records }

\* VENDOR_TAB of the target store: F27 -> F334 (vendor "12" has no row)
VENDOR_TAB == [ v \in { <<"1">> } |-> <<"A", "c", "m", "e">> ]

----------------------------------------------------------------------------
(* Helpers of the script *)

Whitespace == { " " }

\* str.strip(): drop leading and trailing whitespace
RECURSIVE lstrip(_)
lstrip(s) == IF s # <<>> /\ Head(s) \in Whitespace THEN lstrip(Tail(s)) ELSE s

RECURSIVE rstrip(_)
rstrip(s) ==
    IF s # <<>> /\ s[Len(s)] \in Whitespace THEN rstrip(SubSeq(s, 1, Len(s) - 1)) ELSE s

strip(s) == rstrip(lstrip(s))

UpperCase == <<"A", "B", "C", "D", "E", "F", "G", "H", "I", "J", "K", "L", "M",
               "N", "O", "P", "Q", "R", "S", "T", "U", "V", "W", "X", "Y", "Z">>
LowerCase == <<"a", "b", "c", "d", "e", "f", "g", "h", "i", "j", "k", "l", "m",
               "n", "o", "p", "q", "r", "s", "t", "u", "v", "w", "x", "y", "z">>

\* str.lower(): every upper-case letter replaced by its lower-case letter
lower(s) ==
    [ i \in 1..Len(s) |->
        IF \E k \in 1..Len(UpperCase) : UpperCase[k] = s[i]
        THEN LowerCase[CHOOSE k \in 1..Len(UpperCase) : UpperCase[k] = s[i]]
        ELSE s[i] ]

\* str(v) of a text or of None
str(v) == IF v = None THEN <<"N", "o", "n", "e">> ELSE v

safe_str_unstripped(v) == IF v = None THEN <<>> ELSE str(v)

\* safe_str: "" for None, else the stripped text
safe_str(v) == IF v = None THEN <<>> ELSE strip(str(v))

DigitValue == [ c \in {"0", "1", "2", "3", "4", "5", "6", "7", "8", "9"} |->
                CASE c = "0" -> 0 [] c = "1" -> 1 [] c = "2" -> 2 [] c = "3" -> 3
                  [] c = "4" -> 4 [] c = "5" -> 5 [] c = "6" -> 6 [] c = "7" -> 7
                  [] c = "8" -> 8 [] c = "9" -> 9 ]

RECURSIVE DecimalValue(_)
DecimalValue(s) ==
    IF s = <<>> THEN 0
    ELSE 10 * DecimalValue(SubSeq(s, 1, Len(s) - 1)) + DigitValue[s[Len(s)]]

\* safe_int: int(v), or the default for None, "" and text int() rejects
safe_int(v, default) ==
    IF v = None \/ v = <<>> THEN default
    ELSE LET t == strip(v)
         IN  IF t # <<>> /\ \A i \in 1..Len(t) : t[i] \in DOMAIN DigitValue
             THEN DecimalValue(t)
             ELSE default

\* the header dedup key: f"{item.get('vendor_number')}{po}"
vendor_case_key(item) == str(item.vendor_number) \o str(item.case_order_number)

\* "x if x else 0" of a row count
RowsOrZero(inserted) == IF inserted # 0 THEN inserted ELSE 0

----------------------------------------------------------------------------
(* Target store operations *)

\* how conn.commit() ends: it works; it raises and the server has rolled the
\* transaction back; it raises and the transaction of conn stays open
CommitAnswers == { "ok", "rolled_back", "open" }

\* how the SQL Server answers the statements of one call: conn.cursor(), the
\* SELECT, the INSERT and cursor.close() work or raise, conn.commit() as above
AllDbAnswers == [cursor : BOOLEAN, query : BOOLEAN, execute : BOOLEAN,
                 commit : CommitAnswers, close : BOOLEAN]

\* the answers of a server on which a row that was inserted is committed and
\* its cursor closed without error
DbAnswers == { db \in AllDbAnswers : db.commit = "ok" /\ db.close }

\* the rows of a staging table among the entries of a transaction
RowsOf(table, entries) ==
    LET InTable(e) == e.table = table
        chosen == SelectSeq(entries, InTable)
    IN  [n \in 1..Len(chosen) |-> chosen[n].row]

\* cursor.execute(INSERT) has worked: conn.commit(), cursor.rowcount and
\* cursor.close(). committed holds the rows the commit made durable: the new
\* row and those left in the transaction by earlier calls
CommitInsert(entry, tx, db) ==
    IF db.commit = "ok"
    THEN [raised |-> ~db.close, rows_affected |-> IF db.close THEN 1 ELSE 0,
          committed |-> Append(tx, entry), tx |-> <<>>]
    ELSE IF db.commit = "open"
    THEN [raised |-> TRUE, rows_affected |-> 0, committed |-> <<>>,
          tx |-> Append(tx, entry)]
    ELSE [raised |-> TRUE, rows_affected |-> 0, committed |-> <<>>, tx |-> <<>>]

EmptyCache == [k \in {} |-> <<>>]

get_vendor_name_cached_single_entry(vendor_number, cache, db) ==
    LET key == safe_str(vendor_number)
    IN  IF key \in DOMAIN cache
        THEN [name |-> cache[key], cache |-> cache,
              log |-> [key |-> key, queried |-> FALSE, failed |-> FALSE,
                       severity |-> "None", name |-> cache[key]]]
        ELSE IF db.query
        THEN LET vendor_name == IF str(vendor_number) \in DOMAIN VENDOR_TAB
                                THEN strip(VENDOR_TAB[str(vendor_number)])
                                ELSE <<>>
             IN  [name |-> vendor_name, cache |-> (key :> vendor_name),
                  log |-> [key |-> key, queried |-> TRUE, failed |-> FALSE,
                           severity |-> "None", name |-> vendor_name]]
        ELSE [name |-> <<>>, cache |-> (key :> <<>>),
              log |-> [key |-> key, queried |-> TRUE, failed |-> TRUE,
                       severity |-> "WARN", name |-> <<>>]]

get_vendor_name_cached_failure_uncached(vendor_number, cache, db) ==
    LET key == safe_str(vendor_number)
    IN  IF key \in DOMAIN cache
        THEN [name |-> cache[key], cache |-> cache,
              log |-> [key |-> key, queried |-> FALSE, failed |-> FALSE,
                       severity |-> "None", name |-> cache[key]]]
        ELSE IF db.query
        THEN LET vendor_name == IF str(vendor_number) \in DOMAIN VENDOR_TAB
                                THEN strip(VENDOR_TAB[str(vendor_number)])
                                ELSE <<>>
             IN  [name |-> vendor_name, cache |-> (key :> vendor_name) @@ cache,
                  log |-> [key |-> key, queried |-> TRUE, failed |-> FALSE,
                           severity |-> "None", name |-> vendor_name]]
        ELSE [name |-> <<>>, cache |-> cache,
              log |-> [key |-> key, queried |-> TRUE, failed |-> TRUE,
                       severity |-> "WARN", name |-> <<>>]]

get_vendor_name_cached_failure_as_error(vendor_number, cache, db) ==
    LET key == safe_str(vendor_number)
    IN  IF key \in DOMAIN cache
        THEN [name |-> cache[key], cache |-> cache,
              log |-> [key |-> key, queried |-> FALSE, failed |-> FALSE,
                       severity |-> "None", name |-> cache[key]]]
        ELSE IF db.query
        THEN LET vendor_name == IF str(vendor_number) \in DOMAIN VENDOR_TAB
                                THEN strip(VENDOR_TAB[str(vendor_number)])
                                ELSE <<>>
             IN  [name |-> vendor_name, cache |-> (key :> vendor_name) @@ cache,
                  log |-> [key |-> key, queried |-> TRUE, failed |-> FALSE,
                           severity |-> "None", name |-> vendor_name]]
        ELSE [name |-> None, cache |-> (key :> None) @@ cache,
              log |-> [key |-> key, queried |-> TRUE, failed |-> TRUE,
                       severity |-> "ERROR", name |-> None]]

\* get_vendor_name_cached: the name returned, the cache afterwards, and what the
\* call did: whether it sent the query, whether the query failed and how that
\* was reported
get_vendor_name_cached(vendor_number, cache, db) ==
    LET key == safe_str(vendor_number)
    IN  IF key \in DOMAIN cache
        THEN [name |-> cache[key], cache |-> cache,
              log |-> [key |-> key, queried |-> FALSE, failed |-> FALSE,
                       severity |-> "None", name |-> cache[key]]]
        ELSE IF db.query
        THEN LET vendor_name == IF str(vendor_number) \in DOMAIN VENDOR_TAB
                                THEN strip(VENDOR_TAB[str(vendor_number)])
                                ELSE <<>>
             IN  [name |-> vendor_name, cache |-> (key :> vendor_name) @@ cache,
                  log |-> [key |-> key, queried |-> TRUE, failed |-> FALSE,
                           severity |-> "None", name |-> vendor_name]]
        ELSE \* except Exception: cache "", ui_warn("Vendor lookup failed", ...)
             [name |-> <<>>, cache |-> (key :> <<>>) @@ cache,
              log |-> [key |-> key, queried |-> TRUE, failed |-> TRUE,
                       severity |-> "WARN", name |-> <<>>]]

\* send_rechdr: one INSERT INTO TMP_REC_BAT and its commit; cursor.rowcount of a
\* single-row INSERT that worked is 1. lookups holds what its call of
\* get_vendor_name_cached did, if the call was reached; tx is the open
\* transaction of conn
send_rechdr(item, cache, tx, db) ==
    IF ~db.cursor
    THEN [raised |-> TRUE, rows_affected |-> 0, cache |-> cache, lookups |-> <<>>,
          committed |-> <<>>, tx |-> tx]
    ELSE LET looked == get_vendor_name_cached(item.vendor_number, cache, db)
             row == [F1032 |-> str(item.case_order_number),
                     F27   |-> item.vendor_number,
                     F91   |-> item.case_order_number,
                     F334  |-> looked.name]
             done == CommitInsert([table |-> "TMP_REC_BAT", row |-> row], tx, db)
         IN  IF db.execute
             THEN [raised |-> done.raised, rows_affected |-> done.rows_affected,
                   cache |-> looked.cache, lookups |-> <<looked.log>>,
                   committed |-> done.committed, tx |-> done.tx]
             ELSE [raised |-> TRUE, rows_affected |-> 0, cache |-> looked.cache,
                   lookups |-> <<looked.log>>, committed |-> <<>>, tx |-> tx]

\* send_recdtl: the sku test, one INSERT INTO TMP_REC_DTL and its commit
send_recdtl(item, line_num, tx, db) ==
    LET sku == safe_str(item.sku)
        row == [F1032 |-> safe_int(item.case_order_number, 0),
                F1101 |-> line_num,
                F01   |-> sku]
        done == CommitInsert([table |-> "TMP_REC_DTL", row |-> row], tx, db)
    IN  IF ~db.cursor \/ sku = <<>> \/ ~db.execute
        THEN [raised |-> TRUE, rows_affected |-> 0, committed |-> <<>>, tx |-> tx]
        ELSE [raised |-> done.raised, rows_affected |-> done.rows_affected,
              committed |-> done.committed, tx |-> done.tx]

----------------------------------------------------------------------------
(* The record loop of run_import, statement by statement *)

NeedsHeader_always(key, seen) == TRUE

\* if vendor_case_key not in seen_headers
NeedsHeader(key, seen) == key \notin seen

SeenAfterRechdr_marked_on_failure(seen, key, raised) == seen \cup {key}

SeenAfterRechdr_never_marked(seen, key, raised) == seen

\* seen_headers.add(vendor_case_key) follows send_rechdr inside the try
SeenAfterRechdr(seen, key, raised) == IF raised THEN seen ELSE seen \cup {key}

TotalsAfterRechdr_skip_uncounted(t, raised, inserted) ==
    IF raised THEN t ELSE [t EXCEPT !.hdr_inserts = @ + RowsOrZero(inserted)]

\* totals["hdr_inserts"] += ... / except: totals["hdr_skipped"] += 1
TotalsAfterRechdr(t, raised, inserted) ==
    IF raised THEN [t EXCEPT !.hdr_skipped = @ + 1]
    ELSE [t EXCEPT !.hdr_inserts = @ + RowsOrZero(inserted)]

TotalsAfterRecdtl_skip_uncounted(t, raised, inserted) ==
    IF raised THEN t ELSE [t EXCEPT !.dtl_inserts = @ + RowsOrZero(inserted)]

\* totals["dtl_inserts"] += ... / except: totals["dtl_skipped"] += 1
TotalsAfterRecdtl(t, raised, inserted) ==
    IF raised THEN [t EXCEPT !.dtl_skipped = @ + 1]
    ELSE [t EXCEPT !.dtl_inserts = @ + RowsOrZero(inserted)]

PcAfterRechdr_uncaught(raised) == IF raised THEN "finally" ELSE "send_recdtl"

\* except Exception around send_rechdr: the loop body goes on to send_recdtl
PcAfterRechdr(raised) == "send_recdtl"

\* except Exception around send_recdtl: the loop goes on to the next item
PcAfterRecdtl(raised) == "for_item"

NextLineNumber_stuck(n) == n

\* line_number += 1
NextLineNumber(n) == n + 1

----------------------------------------------------------------------------
(* Upshop API *)

terminal_success == { <<"f", "i", "n", "i", "s", "h", "e", "d">> }
terminal_failure == { <<"f", "a", "i", "l", "e", "d">>,
                      <<"e", "r", "r", "o", "r">>,
                      <<"c", "a", "n", "c", "e", "l", "l", "e", "d">>,
                      <<"c", "a", "n", "c", "e", "l", "e", "d">> }

\* status texts a /job_status reply carries in a run of the import
StatusReplies == { <<"f", "i", "n", "i", "s", "h", "e", "d">>,
                   <<"f", "a", "i", "l", "e", "d">>,
                   <<"r", "u", "n", "n", "i", "n", "g">> }

\* a /job_status reply: its "status" and "state" fields and its "data" list
Payloads(statuses, states, datasets) ==
    [status : statuses, state : states, data : datasets]

\* Python truth of a text or None
Truthy(v) == v # None /\ v # <<>>

\* status_raw = status_payload.get("status") or status_payload.get("state")
status_raw(payload) == IF Truthy(payload.status) THEN payload.status ELSE payload.state

status_val_as_sent(payload) ==
    IF Truthy(status_raw(payload)) THEN status_raw(payload) ELSE <<>>

\* status_val = (status_raw or "").strip().lower()
status_val(payload) ==
    lower(strip(IF Truthy(status_raw(payload)) THEN status_raw(payload) ELSE <<>>))

StatusEventsAfter_every_poll(events, last, val) ==
    Append(events, [from |-> last, to |-> val])

\* if status_val != last_status: status("Job status changed", ...)
StatusEventsAfter(events, last, val) ==
    IF val # last THEN Append(events, [from |-> last, to |-> val]) ELSE events

\* job_id values of the /export/orders reply
JobIds == { "J1" }

ZeroTotals == [hdr_inserts |-> 0, dtl_inserts |-> 0, items_seen |-> 0,
               hdr_skipped |-> 0, dtl_skipped |-> 0]

\* StatusUI.__init__: "Starting...", no message listed, Close disabled
StartWindow == [msg |-> "Starting...", listbox |-> <<>>, errors_count |-> 0,
                warn_count |-> 0, close_enabled |-> FALSE, open |-> TRUE]

----------------------------------------------------------------------------
(* run_import *)

Init ==
    /\ pc = "open_db"
    /\ conn = "None"
    /\ db_sessions = 0
    /\ http = {}
    /\ auth_token = "None"
    /\ job_id = "None"
    /\ last_status = None
    /\ elapsed = 0
    /\ data_items = <<>>
    /\ totals = ZeroTotals
    /\ seen_headers = {}
    /\ line_number = 1
    /\ idx = 1
    /\ vendor_cache = EmptyCache
    /\ TMP_REC_BAT = <<>>
    /\ TMP_REC_DTL = <<>>
    /\ hdr_calls = <<>>
    /\ dtl_calls = <<>>
    /\ outcome = "running"
    /\ error = "None"
    /\ summary = <<>>
    /\ vendor_lookups = <<>>
    /\ polls = <<>>
    /\ status_events = <<>>
    /\ tx_pending = <<>>
    /\ requests = <<>>
    /\ ui_taken = 0
    /\ ui_calls = <<>>
    /\ window = StartWindow

\* an exception leaves the try block: control goes to the finally clause
Raise == pc' = "finally" /\ outcome' = "raised"

\* the same, with the exception that travels to the caller of run_import
RaiseError(e) == Raise /\ error' = e

OpenDatabase_failure_ignored ==
    /\ pc = "open_db"
    /\ \E connected \in BOOLEAN, validated \in BOOLEAN :
          /\ db_sessions' = IF connected THEN db_sessions + 1 ELSE db_sessions
          /\ conn' = IF connected /\ validated THEN "open" ELSE "None"
          /\ pc' = "login"
          /\ outcome' = outcome
    /\ UNCHANGED <<requests, ui_taken, ui_calls, window,
                   http, auth_token, job_id, last_status, elapsed, data_items, totals,
                   seen_headers, line_number, idx, vendor_cache, TMP_REC_BAT,
                   TMP_REC_DTL, hdr_calls, dtl_calls, error, summary, vendor_lookups,
                   polls, status_events, tx_pending>>

\* conn = open_and_validate_database_connection()
OpenDatabase ==
    /\ pc = "open_db"
    /\ \/ \* pyodbc.connect raises
          /\ RaiseError("ConnectError")
          /\ UNCHANGED <<conn, db_sessions>>
       \/ \* connected, but SELECT 1 raises: conn is never assigned
          /\ db_sessions' = db_sessions + 1
          /\ RaiseError("ValidateError")
          /\ UNCHANGED conn
       \/ \* connected and validated
          /\ db_sessions' = db_sessions + 1
          /\ conn' = "open"
          /\ pc' = "login"
          /\ UNCHANGED <<outcome, error>>
    /\ UNCHANGED <<requests, ui_taken, ui_calls, window,
                   http, auth_token, job_id, last_status, elapsed, data_items, totals,
                   seen_headers, line_number, idx, vendor_cache, TMP_REC_BAT,
                   TMP_REC_DTL, hdr_calls, dtl_calls, summary, vendor_lookups,
                   polls, status_events, tx_pending>>

Login_token_unchecked ==
    /\ pc = "login"
    /\ http' = http \cup {"login"}
    /\ \/ /\ RaiseError("LoginRequestError")
          /\ UNCHANGED auth_token
       \/ /\ auth_token' \in {"None", "T1"}
          /\ pc' = "get_job_id"
          /\ UNCHANGED <<outcome, error>>
    /\ UNCHANGED <<requests, ui_taken, ui_calls, window,
                   conn, db_sessions, job_id, last_status, elapsed, data_items, totals,
                   seen_headers, line_number, idx, vendor_cache, TMP_REC_BAT,
                   TMP_REC_DTL, hdr_calls, dtl_calls, summary, vendor_lookups,
                   polls, status_events, tx_pending>>

Login_retry ==
    /\ pc = "login"
    /\ http' = http \cup {"login"}
    /\ \/ UNCHANGED <<auth_token, pc, outcome, error>>
       \/ /\ RaiseError("AuthTokenMissing")
          /\ UNCHANGED auth_token
       \/ /\ auth_token' = "T1"
          /\ pc' = "get_job_id"
          /\ UNCHANGED <<outcome, error>>
    /\ UNCHANGED <<requests, ui_taken, ui_calls, window,
                   conn, db_sessions, job_id, last_status, elapsed, data_items, totals,
                   seen_headers, line_number, idx, vendor_cache, TMP_REC_BAT,
                   TMP_REC_DTL, hdr_calls, dtl_calls, summary, vendor_lookups,
                   polls, status_events, tx_pending>>

\* POST /login, then the access_token test
Login ==
    /\ pc = "login"
    /\ http' = http \cup {"login"}
    /\ \/ \* request_json raises
          /\ RaiseError("LoginRequestError")
          /\ UNCHANGED auth_token
       \/ \* the reply has no access_token: raise RuntimeError
          /\ RaiseError("AuthTokenMissing")
          /\ UNCHANGED auth_token
       \/ /\ auth_token' = "T1"
          /\ pc' = "get_job_id"
          /\ UNCHANGED <<outcome, error>>
    /\ UNCHANGED <<requests, ui_taken, ui_calls, window,
                   conn, db_sessions, job_id, last_status, elapsed, data_items, totals,
                   seen_headers, line_number, idx, vendor_cache, TMP_REC_BAT,
                   TMP_REC_DTL, hdr_calls, dtl_calls, summary, vendor_lookups,
                   polls, status_events, tx_pending>>

\* job_id = get_job_id(auth_token): POST /export/orders
GetJobId ==
    /\ pc = "get_job_id"
    /\ http' = http \cup {"submit"}
    /\ \/ \* request_json raises
          /\ RaiseError("SubmitRequestError")
          /\ UNCHANGED <<job_id, last_status, elapsed>>
       \/ \* the reply carries a job id
          \E id \in JobIds :
          /\ job_id' = id
          /\ last_status' = None
          /\ elapsed' = 0
          /\ pc' = "wait_for_job"
          /\ UNCHANGED <<outcome, error>>
    /\ UNCHANGED <<requests, ui_taken, ui_calls, window,
                   conn, db_sessions, auth_token, data_items, totals,
                   seen_headers, line_number, idx, vendor_cache, TMP_REC_BAT,
                   TMP_REC_DTL, hdr_calls, dtl_calls, summary, vendor_lookups,
                   polls, status_events, tx_pending>>

SleepAfterPoll_no_time(t, took) == t

\* elapsed time once the request has returned and time.sleep(poll_interval_seconds)
\* is over, in poll intervals
SleepAfterPoll(t, took) == t + took + 1

\* the locals of wait_for_job_completion go out of scope when it returns or raises
WaitLeft == last_status' = None /\ elapsed' = 0

\* the turn with the timeout looked at before the status
WaitTurn_timeout_first(payload, took) ==
    LET val == status_val(payload)
    IN  IF elapsed + took > TimeoutTicks
        THEN /\ RaiseError("JobTimeout")
             /\ WaitLeft
             /\ UNCHANGED data_items
        ELSE IF val \in terminal_success
        THEN /\ data_items' = payload.data
             /\ pc' = "download"
             /\ WaitLeft
             /\ UNCHANGED <<outcome, error>>
        ELSE IF val \in terminal_failure
        THEN /\ RaiseError("JobFailed")
             /\ WaitLeft
             /\ UNCHANGED data_items
        ELSE /\ last_status' = val
             /\ elapsed' = SleepAfterPoll(elapsed, took)
             /\ UNCHANGED <<pc, outcome, error, data_items>>

\* one turn of the while loop of wait_for_job_completion, for the reply payload
\* of GET /job_status/{id} that came after took poll intervals
WaitTurn(payload, took) ==
    LET val == status_val(payload)
    IN  IF val \in terminal_success
        THEN \* return status_payload
             /\ data_items' = payload.data
             /\ pc' = "download"
             /\ WaitLeft
             /\ UNCHANGED <<outcome, error>>
        ELSE IF val \in terminal_failure
        THEN \* raise RuntimeError("Job failed ...")
             /\ RaiseError("JobFailed")
             /\ WaitLeft
             /\ UNCHANGED data_items
        ELSE IF elapsed + took > TimeoutTicks
        THEN \* raise TimeoutError("Job did not finish ...")
             /\ RaiseError("JobTimeout")
             /\ WaitLeft
             /\ UNCHANGED data_items
        ELSE \* time.sleep(poll_interval_seconds)
             /\ last_status' = val
             /\ elapsed' = SleepAfterPoll(elapsed, took)
             /\ UNCHANGED <<pc, outcome, error, data_items>>

\* check_job_status raises: request_json re-raises the request error
PollFailed ==
    /\ RaiseError("PollRequestError")
    /\ WaitLeft
    /\ UNCHANGED data_items

\* one poll of the job inside run_import
PollJob ==
    /\ pc = "wait_for_job"
    /\ http' = http \cup {"poll"}
    /\ \/ PollFailed
       \/ \E payload \in Payloads(StatusReplies, {None}, ResultSets(MaxItems)),
             took \in 0..1 :
             WaitTurn(payload, took)
    /\ UNCHANGED <<requests, ui_taken, ui_calls, window,
                   conn, db_sessions, auth_token, job_id, totals,
                   seen_headers, line_number, idx, vendor_cache, TMP_REC_BAT,
                   TMP_REC_DTL, hdr_calls, dtl_calls, summary, vendor_lookups,
                   polls, status_events, tx_pending>>

Download_empty_raises ==
    /\ pc = "download"
    /\ IF data_items = <<>>
       THEN /\ RaiseError("EmptyResult")
            /\ UNCHANGED <<totals, seen_headers, line_number, idx>>
       ELSE /\ seen_headers' = {}
            /\ line_number' = 1
            /\ idx' = 1
            /\ pc' = "for_item"
            /\ UNCHANGED <<totals, outcome, error>>
    /\ UNCHANGED <<requests, ui_taken, ui_calls, window,
                   conn, db_sessions, http, auth_token, job_id, last_status, elapsed,
                   data_items, vendor_cache, TMP_REC_BAT, TMP_REC_DTL, hdr_calls,
                   dtl_calls, summary, vendor_lookups, polls, status_events, tx_pending>>

\* data_items = job_status.get("data", []) and the empty test
Download ==
    /\ pc = "download"
    /\ IF data_items = <<>>
       THEN /\ totals' = [totals EXCEPT !.items_seen = 0]
            /\ pc' = "finally"
            /\ outcome' = "returned"
            /\ UNCHANGED <<seen_headers, line_number, idx>>
       ELSE /\ seen_headers' = {}
            /\ line_number' = 1
            /\ idx' = 1
            /\ pc' = "for_item"
            /\ UNCHANGED <<totals, outcome>>
    /\ UNCHANGED <<requests, ui_taken, ui_calls, window,
                   conn, db_sessions, http, auth_token, job_id, last_status, elapsed,
                   data_items, vendor_cache, TMP_REC_BAT, TMP_REC_DTL, hdr_calls,
                   dtl_calls, error, summary, vendor_lookups, polls, status_events, tx_pending>>

\* the calls of get_vendor_name_cached made for record i, as kept in the history
LookupsOf(i, lookups) ==
    [n \in DOMAIN lookups |->
       [item |-> i, key |-> lookups[n].key, queried |-> lookups[n].queried,
        failed |-> lookups[n].failed, severity |-> lookups[n].severity,
        name |-> lookups[n].name]]

\* for item in data_items: count it, build the key, insert the header if unseen,
\* the server answering as one of answers; with logged, the history of the
\* vendor lookups is kept
HeaderStep(logged, answers) ==
    /\ pc = "for_item"
    /\ idx <= Len(data_items)
    /\ LET item == data_items[idx]
           key  == vendor_case_key(item)
           seen == [totals EXCEPT !.items_seen = @ + 1]
       IN  IF NeedsHeader(key, seen_headers)
           THEN \E db \in answers :
                  LET r == send_rechdr(item, vendor_cache, tx_pending, db)
                  IN  /\ vendor_cache' = r.cache
                      /\ TMP_REC_BAT' = TMP_REC_BAT \o RowsOf("TMP_REC_BAT", r.committed)
                      /\ TMP_REC_DTL' = TMP_REC_DTL \o RowsOf("TMP_REC_DTL", r.committed)
                      /\ tx_pending' = r.tx
                      /\ totals' = TotalsAfterRechdr(seen, r.raised, r.rows_affected)
                      /\ seen_headers' = SeenAfterRechdr(seen_headers, key, r.raised)
                      /\ hdr_calls' = Append(hdr_calls, [item |-> idx, raised |-> r.raised])
                      /\ vendor_lookups' = IF logged
                                           THEN vendor_lookups \o LookupsOf(idx, r.lookups)
                                           ELSE vendor_lookups
                      /\ pc' = PcAfterRechdr(r.raised)
                      /\ outcome' = IF pc' = "finally" THEN "raised" ELSE outcome
                      /\ error' = IF pc' = "finally" THEN "InsertError" ELSE error
           ELSE /\ totals' = seen
                /\ pc' = "send_recdtl"
                /\ UNCHANGED <<vendor_cache, TMP_REC_BAT, TMP_REC_DTL, tx_pending,
                               seen_headers, hdr_calls, outcome, error, vendor_lookups>>
    /\ UNCHANGED <<requests, ui_taken, ui_calls, window,
                   conn, db_sessions, http, auth_token, job_id, last_status, elapsed,
                   data_items, line_number, idx, dtl_calls, summary,
                   polls, status_events>>

\* the header step inside run_import
ImportHeader == HeaderStep(FALSE, DbAnswers)

\* send_recdtl(conn, item, line_number), then line_number += 1, the server
\* answering as one of answers
DetailStep(answers) ==
    /\ pc = "send_recdtl"
    /\ \E db \in answers :
          LET r == send_recdtl(data_items[idx], line_number, tx_pending, db)
          IN  /\ TMP_REC_BAT' = TMP_REC_BAT \o RowsOf("TMP_REC_BAT", r.committed)
              /\ TMP_REC_DTL' = TMP_REC_DTL \o RowsOf("TMP_REC_DTL", r.committed)
              /\ tx_pending' = r.tx
              /\ totals' = TotalsAfterRecdtl(totals, r.raised, r.rows_affected)
              /\ dtl_calls' = Append(dtl_calls, [item |-> idx, line |-> line_number,
                                                 raised |-> r.raised])
              /\ pc' = PcAfterRecdtl(r.raised)
              /\ outcome' = IF pc' = "finally" THEN "raised" ELSE outcome
              /\ error' = IF pc' = "finally" THEN "InsertError" ELSE error
    /\ line_number' = NextLineNumber(line_number)
    /\ idx' = idx + 1
    /\ UNCHANGED <<requests, ui_taken, ui_calls, window,
                   conn, db_sessions, http, auth_token, job_id, last_status, elapsed,
                   data_items, seen_headers, vendor_cache, hdr_calls,
                   summary, vendor_lookups, polls, status_events>>

\* the detail step inside run_import
ImportDetail == DetailStep(DbAnswers)

\* the loop is exhausted: "Import completed." and return totals
ImportCompleted ==
    /\ pc = "for_item"
    /\ idx > Len(data_items)
    /\ pc' = "finally"
    /\ outcome' = "returned"
    /\ UNCHANGED <<requests, ui_taken, ui_calls, window,
                   conn, db_sessions, http, auth_token, job_id, last_status, elapsed,
                   data_items, totals, seen_headers, line_number, idx, vendor_cache,
                   TMP_REC_BAT, TMP_REC_DTL, hdr_calls, dtl_calls, error, summary,
                   vendor_lookups, polls, status_events, tx_pending>>

SummaryAfterClose_uncaught(lines, t, close_raised) ==
    IF close_raised THEN lines ELSE Append(lines, t)

\* the "Run summary" line follows the try/except around conn.close()
SummaryAfterClose(lines, t, close_raised) == Append(lines, t)

\* finally: close the connection if run_import holds one, log the run summary;
\* the exception of the try block, if any, then leaves run_import
Finally ==
    /\ pc = "finally"
    /\ \E close_raised \in BOOLEAN :
          /\ IF conn = "open" /\ ~close_raised
             THEN \* the session ends and its open transaction is rolled back
                  /\ conn' = "closed"
                  /\ db_sessions' = db_sessions - 1
                  /\ tx_pending' = <<>>
             ELSE UNCHANGED <<conn, db_sessions, tx_pending>>
          /\ summary' = SummaryAfterClose(summary, totals, conn = "open" /\ close_raised)
    /\ pc' = "done"
    /\ UNCHANGED <<requests, ui_taken, ui_calls, window,
                   http, auth_token, job_id, last_status, elapsed, data_items, totals,
                   seen_headers, line_number, idx, vendor_cache, TMP_REC_BAT,
                   TMP_REC_DTL, hdr_calls, dtl_calls, outcome, error, vendor_lookups,
                   polls, status_events>>

Next ==
    \/ OpenDatabase
    \/ Login
    \/ GetJobId
    \/ PollJob
    \/ Download
    \/ ImportHeader
    \/ ImportDetail
    \/ ImportCompleted
    \/ Finally

Spec == Init /\ [][Next]_vars

----------------------------------------------------------------------------
(* wait_for_job_completion on its own: one call, with the history of its polls *)

\* "status" fields of /job_status replies: missing, empty, and texts in several
\* spellings
RawStatuses == { None, <<>>,
                 <<"f", "i", "n", "i", "s", "h", "e", "d">>,
                 <<" ", " ", "F", "i", "n", "i", "s", "h", "e", "d", " ">>,
                 <<"F", "I", "N", "I", "S", "H", "E", "D">>,
                 <<"f", "a", "i", "l", "e", "d">>,
                 <<"E", "r", "r", "o", "r">>,
                 <<"c", "a", "n", "c", "e", "l", "l", "e", "d">>,
                 <<"c", "a", "n", "c", "e", "l", "e", "d">>,
                 <<"r", "u", "n", "n", "i", "n", "g">> }

\* "state" fields of /job_status replies
RawStates == { None, <<"f", "i", "n", "i", "s", "h", "e", "d">> }

\* result sets of the replies in this call
WaitResultSets == { <<>>, <<[vendor_number |-> "1", case_order_number |-> "23",
                              sku |-> <<"A">>]>> }

\* the call wait_for_job_completion(auth_token, job_id) has just begun
InitWait ==
    /\ pc = "wait_for_job"
    /\ conn = "open"
    /\ db_sessions = 1
    /\ http = {"login", "submit"}
    /\ auth_token = "T1"
    /\ job_id = "J1"
    /\ last_status = None
    /\ elapsed = 0
    /\ data_items = <<>>
    /\ totals = ZeroTotals
    /\ seen_headers = {}
    /\ line_number = 1
    /\ idx = 1
    /\ vendor_cache = EmptyCache
    /\ TMP_REC_BAT = <<>>
    /\ TMP_REC_DTL = <<>>
    /\ hdr_calls = <<>>
    /\ dtl_calls = <<>>
    /\ outcome = "running"
    /\ error = "None"
    /\ summary = <<>>
    /\ vendor_lookups = <<>>
    /\ polls = <<>>
    /\ status_events = <<>>
    /\ tx_pending = <<>>
    /\ requests = <<>>
    /\ ui_taken = 0
    /\ ui_calls = <<>>
    /\ window = StartWindow

\* one poll of the job, recorded: the reply, the status read from it, the time
\* it arrived, how the turn ended, the result set returned and the status text
\* put in the message of the exception raised
WaitPoll ==
    /\ pc = "wait_for_job"
    /\ http' = http \cup {"poll"}
    /\ \/ /\ PollFailed
          /\ polls' = Append(polls, [status |-> None, state |-> None, val |-> None,
                                     at |-> elapsed, data |-> <<>>, carried |-> None,
                                     ended |-> "PollRequestError"])
          /\ UNCHANGED status_events
       \/ \E payload \in Payloads(RawStatuses, RawStates, WaitResultSets),
             took \in 0..1 :
             /\ WaitTurn(payload, took)
             /\ status_events' =
                    StatusEventsAfter(status_events, last_status, status_val(payload))
             /\ polls' = Append(polls, [status |-> payload.status,
                                        state  |-> payload.state,
                                        val    |-> status_val(payload),
                                        at     |-> elapsed + took,
                                        data   |-> IF pc' = "download"
                                                   THEN payload.data ELSE <<>>,
                                        carried |-> IF pc' = "finally"
                                                    THEN status_raw(payload) ELSE None,
                                        ended  |-> IF pc' = "download" THEN "returned"
                                                   ELSE IF pc' = "finally" THEN error'
                                                   ELSE "sleep"])
    /\ UNCHANGED <<requests, ui_taken, ui_calls, window,
                   conn, db_sessions, auth_token, job_id, totals,
                   seen_headers, line_number, idx, vendor_cache, TMP_REC_BAT,
                   TMP_REC_DTL, hdr_calls, dtl_calls, summary, vendor_lookups,
                   tx_pending>>

NextWait == WaitPoll

SpecWait == InitWait /\ [][NextWait]_vars

\* every poll request returns and the loop keeps running until it returns or raises
SpecWaitFair == SpecWait /\ WF_vars(NextWait)

----------------------------------------------------------------------------
(* The record loop on its own, with the history of the vendor lookups *)

\* records that differ in vendor and order only
VendorRecords == { r \in Records : r.sku = <<"A">> }

RECURSIVE VendorResultSets(_)
\* the result sets of at most n such records
VendorResultSets(n) ==
    IF n = 0 THEN { <<>> }
    ELSE VendorResultSets(n - 1) \cup
         { Append(s, r) : s \in { t \in VendorResultSets(n - 1) : Len(t) = n - 1 },
                          r \in VendorRecords }

\* wait_for_job_completion has just returned a result set
InitVendor ==
    /\ pc = "download"
    /\ conn = "open"
    /\ db_sessions = 1
    /\ http = {"login", "submit", "poll"}
    /\ auth_token = "T1"
    /\ job_id = "J1"
    /\ last_status = None
    /\ elapsed = 0
    /\ data_items \in VendorResultSets(MaxItems)
    /\ totals = ZeroTotals
    /\ seen_headers = {}
    /\ line_number = 1
    /\ idx = 1
    /\ vendor_cache = EmptyCache
    /\ TMP_REC_BAT = <<>>
    /\ TMP_REC_DTL = <<>>
    /\ hdr_calls = <<>>
    /\ dtl_calls = <<>>
    /\ outcome = "running"
    /\ error = "None"
    /\ summary = <<>>
    /\ vendor_lookups = <<>>
    /\ polls = <<>>
    /\ status_events = <<>>
    /\ tx_pending = <<>>
    /\ requests = <<>>
    /\ ui_taken = 0
    /\ ui_calls = <<>>
    /\ window = StartWindow

\* the header step, with every call of get_vendor_name_cached recorded
ImportHeaderLogged == HeaderStep(TRUE, DbAnswers)

NextVendor ==
    \/ Download
    \/ ImportHeaderLogged
    \/ ImportDetail
    \/ ImportCompleted
    \/ Finally

SpecVendor == InitVendor /\ [][NextVendor]_vars

----------------------------------------------------------------------------
(* The record loop on its own, on a server where every statement of an      *)
(* insert can fail: the INSERT, conn.commit() and cursor.close()             *)

\* records of one vendor: two orders, a real item code
CommitRecords == { r \in Records : r.vendor_number = <<"1">> /\ r.sku = <<"A">> }

RECURSIVE CommitResultSets(_)
\* the result sets of at most n such records
CommitResultSets(n) ==
    IF n = 0 THEN { <<>> }
    ELSE CommitResultSets(n - 1) \cup
         { Append(s, r) : s \in { t \in CommitResultSets(n - 1) : Len(t) = n - 1 },
                          r \in CommitRecords }

\* wait_for_job_completion has just returned a result set
InitCommit ==
    /\ pc = "download"
    /\ conn = "open"
    /\ db_sessions = 1
    /\ http = {"login", "submit", "poll"}
    /\ auth_token = "T1"
    /\ job_id = "J1"
    /\ last_status = None
    /\ elapsed = 0
    /\ data_items \in CommitResultSets(MaxItems)
    /\ totals = ZeroTotals
    /\ seen_headers = {}
    /\ line_number = 1
    /\ idx = 1
    /\ vendor_cache = EmptyCache
    /\ TMP_REC_BAT = <<>>
    /\ TMP_REC_DTL = <<>>
    /\ hdr_calls = <<>>
    /\ dtl_calls = <<>>
    /\ outcome = "running"
    /\ error = "None"
    /\ summary = <<>>
    /\ vendor_lookups = <<>>
    /\ polls = <<>>
    /\ status_events = <<>>
    /\ tx_pending = <<>>
    /\ requests = <<>>
    /\ ui_taken = 0
    /\ ui_calls = <<>>
    /\ window = StartWindow

\* the header and detail steps on that server
ImportHeaderCommit == HeaderStep(FALSE, AllDbAnswers)
ImportDetailCommit == DetailStep(AllDbAnswers)

NextCommit ==
    \/ Download
    \/ ImportHeaderCommit
    \/ ImportDetailCommit
    \/ ImportCompleted
    \/ Finally

SpecCommit == InitCommit /\ [][NextCommit]_vars

----------------------------------------------------------------------------
(* The requests of a run on their own: login, job creation and polls, with   *)
(* every reply of the HTTP layer and the history of the request_json calls   *)

\* HTTP status codes of a reply: success, one that requests neither follows
\* nor rejects, two with a message of their own and one without
StatusCodes == { 200, 304, 401, 500, 503 }

\* HTTP_ERROR_MESSAGES: the title of each status code that has one
HTTP_ERROR_MESSAGES == [code \in { 400, 401, 403, 404, 500 } |->
                          CASE code = 400 -> "400 Bad Request"
                            [] code = 401 -> "401 Unauthorized"
                            [] code = 403 -> "403 Forbidden"
                            [] code = 404 -> "404 Not Found"
                            [] code = 500 -> "500 Server Error"]

\* f"HTTP Error {code}"
HttpErrorTitle(code) ==
    CASE code = 304 -> "HTTP Error 304"
      [] code = 503 -> "HTTP Error 503"
      [] OTHER -> "HTTP Error"

\* what requests.get / requests.post meet: no answer in time, no connection,
\* or a response with a status code and a body that is JSON (with the field
\* the caller reads, value) or not
Replies(values) ==
    [kind : {"timeout", "network"}, code : {0}, json : {FALSE},
     value : {CHOOSE v \in values : TRUE}]
    \cup [kind : {"response"}, code : StatusCodes, json : {FALSE},
          value : {CHOOSE v \in values : TRUE}]
    \cup [kind : {"response"}, code : StatusCodes, json : {TRUE}, value : values]

\* resp.raise_for_status() raises HTTPError for the 4xx and 5xx codes
raise_for_status(code) == 400 <= code /\ code < 600

\* the exception a reply ends in, None for a reply that is returned; whether
\* the JSON error of resp.json() is a RequestException depends on the version
\* of requests the program is built with (json_is_request_error)
ExceptionOf(reply, json_is_request_error) ==
    IF reply.kind = "timeout"
    THEN [type |-> "Timeout", code |-> 0, request_exception |-> TRUE]
    ELSE IF reply.kind = "network"
    THEN [type |-> "ConnectionError", code |-> 0, request_exception |-> TRUE]
    ELSE IF raise_for_status(reply.code)
    THEN [type |-> "HTTPError", code |-> reply.code, request_exception |-> TRUE]
    ELSE IF ~reply.json
    THEN [type |-> "JSONDecodeError", code |-> 0,
          request_exception |-> json_is_request_error]
    ELSE [type |-> "None", code |-> 0, request_exception |-> FALSE]

\* the title explain_http_exception gives an exception
explain_http_exception(exc) ==
    IF exc.type = "Timeout"
    THEN "Request timeout"
    ELSE IF exc.type = "HTTPError"
    THEN IF exc.code \in DOMAIN HTTP_ERROR_MESSAGES
         THEN HTTP_ERROR_MESSAGES[exc.code]
         ELSE HttpErrorTitle(exc.code)
    ELSE IF exc.request_exception
    THEN "Network error"
    ELSE "Error"

\* request_json: the value returned, or the exception re-raised after the
\* ui_error calls whose titles are listed; the JSON error passes through the
\* inner handler and then through the outer one
request_json(reply, json_is_request_error) ==
    LET exc == ExceptionOf(reply, json_is_request_error)
    IN  IF exc.type = "None"
        THEN [raised |-> FALSE, exc |-> "None", titles |-> <<>>]
        ELSE [raised |-> TRUE, exc |-> exc.type,
              titles |-> (IF exc.type = "JSONDecodeError"
                          THEN <<"Invalid API response">> ELSE <<>>)
                         \o <<explain_http_exception(exc)>>]

\* the call as the history keeps it: the endpoint, the job id of its URL, the
\* reply and what request_json made of it
RequestEntry(context, job, reply, r) ==
    [context |-> context, job |-> job, kind |-> reply.kind, code |-> reply.code,
     json |-> reply.json, raised |-> r.raised, exc |-> r.exc, titles |-> r.titles]

InitRequest ==
    /\ pc = "login"
    /\ conn = "open"
    /\ db_sessions = 1
    /\ http = {}
    /\ auth_token = "None"
    /\ job_id = "None"
    /\ last_status = None
    /\ elapsed = 0
    /\ data_items = <<>>
    /\ totals = ZeroTotals
    /\ seen_headers = {}
    /\ line_number = 1
    /\ idx = 1
    /\ vendor_cache = EmptyCache
    /\ TMP_REC_BAT = <<>>
    /\ TMP_REC_DTL = <<>>
    /\ hdr_calls = <<>>
    /\ dtl_calls = <<>>
    /\ outcome = "running"
    /\ error = "None"
    /\ summary = <<>>
    /\ vendor_lookups = <<>>
    /\ polls = <<>>
    /\ status_events = <<>>
    /\ tx_pending = <<>>
    /\ requests = <<>>
    /\ ui_taken = 0
    /\ ui_calls = <<>>
    /\ window = StartWindow

\* response_data = request_json("post", .../login), then the access_token test
LoginRequest ==
    /\ pc = "login"
    /\ http' = http \cup {"login"}
    /\ \E reply \in Replies({"None", "T1"}), json_is_request_error \in BOOLEAN :
          LET r == request_json(reply, json_is_request_error)
          IN  /\ requests' = Append(requests, RequestEntry("login", "None", reply, r))
              /\ IF r.raised
                 THEN /\ RaiseError("LoginRequestError")
                      /\ UNCHANGED auth_token
                 ELSE IF reply.value = "None"
                 THEN /\ RaiseError("AuthTokenMissing")
                      /\ UNCHANGED auth_token
                 ELSE /\ auth_token' = reply.value
                      /\ pc' = "get_job_id"
                      /\ UNCHANGED <<outcome, error>>
    /\ UNCHANGED <<ui_taken, ui_calls, window,
                   conn, db_sessions, job_id, last_status, elapsed, data_items, totals,
                   seen_headers, line_number, idx, vendor_cache, TMP_REC_BAT,
                   TMP_REC_DTL, hdr_calls, dtl_calls, summary, vendor_lookups,
                   polls, status_events, tx_pending>>

\* get_job_id: request_json("post", .../export/orders), resp_json.get("job_id")
SubmitRequest ==
    /\ pc = "get_job_id"
    /\ http' = http \cup {"submit"}
    /\ \E reply \in Replies({"None"} \cup JobIds), json_is_request_error \in BOOLEAN :
          LET r == request_json(reply, json_is_request_error)
          IN  /\ requests' = Append(requests, RequestEntry("submit", "None", reply, r))
              /\ IF r.raised
                 THEN /\ RaiseError("SubmitRequestError")
                      /\ UNCHANGED <<job_id, last_status, elapsed>>
                 ELSE /\ job_id' = reply.value
                      /\ last_status' = None
                      /\ elapsed' = 0
                      /\ pc' = "wait_for_job"
                      /\ UNCHANGED <<outcome, error>>
    /\ UNCHANGED <<ui_taken, ui_calls, window,
                   conn, db_sessions, auth_token, data_items, totals,
                   seen_headers, line_number, idx, vendor_cache, TMP_REC_BAT,
                   TMP_REC_DTL, hdr_calls, dtl_calls, summary, vendor_lookups,
                   polls, status_events, tx_pending>>

\* one turn of wait_for_job_completion: check_job_status(auth_token, job_id),
\* which is request_json("get", .../job_status/{job_id}), then the status tests
PollRequest ==
    /\ pc = "wait_for_job"
    /\ http' = http \cup {"poll"}
    /\ \E reply \in Replies(Payloads(StatusReplies, {None}, {<<>>})),
          json_is_request_error \in BOOLEAN :
          LET r == request_json(reply, json_is_request_error)
          IN  /\ requests' = Append(requests, RequestEntry("poll", job_id, reply, r))
              /\ IF r.raised
                 THEN PollFailed
                 ELSE WaitTurn(reply.value, 1)
    /\ UNCHANGED <<ui_taken, ui_calls, window,
                   conn, db_sessions, auth_token, job_id, totals,
                   seen_headers, line_number, idx, vendor_cache, TMP_REC_BAT,
                   TMP_REC_DTL, hdr_calls, dtl_calls, summary, vendor_lookups,
                   polls, status_events, tx_pending>>

NextRequest ==
    \/ LoginRequest
    \/ SubmitRequest
    \/ PollRequest

SpecRequest == InitRequest /\ [][NextRequest]_vars

----------------------------------------------------------------------------
(* The status window: main starts run_import in a worker thread and runs the *)
(* Tk loop of StatusUI in the main thread; the worker's messages go through  *)
(* ui_queue, its final report through ui.root.after                          *)

\* the one record of the result sets of this part
UIRecords == { r \in Records : r.vendor_number = <<"1">> /\ r.sku = <<"A">>
                               /\ r.case_order_number = <<"3">> }

RECURSIVE UIResultSets(_)
UIResultSets(n) ==
    IF n = 0 THEN { <<>> }
    ELSE UIResultSets(n - 1)
         \cup { Append(d, r) : d \in { x \in UIResultSets(n - 1) : Len(x) = n - 1 },
                               r \in UIRecords }

\* runs that failed before the download: the exception, the connection
\* run_import holds, the sessions open and the ui_error titles put before the raise
UIFailures ==
    { [error |-> "ConnectError", conn |-> "None", db_sessions |-> 0, titles |-> <<>>],
      [error |-> "LoginRequestError", conn |-> "open", db_sessions |-> 1,
       titles |-> request_json([kind |-> "timeout", code |-> 0, json |-> FALSE,
                                value |-> "None"], TRUE).titles],
      [error |-> "AuthTokenMissing", conn |-> "open", db_sessions |-> 1,
       titles |-> <<"Auth token missing">>],
      [error |-> "JobFailed", conn |-> "open", db_sessions |-> 1,
       titles |-> <<"Upshop job failed">>],
      [error |-> "JobTimeout", conn |-> "open", db_sessions |-> 1,
       titles |-> <<"Upshop job timeout">>] }

\* status(msg), ui_warn(msg) and ui_error(msg) put (level, msg, detail)
Info(msg) == [level |-> "INFO", msg |-> msg]
Warn(msg) == [level |-> "WARN", msg |-> msg]
Error(msg) == [level |-> "ERROR", msg |-> msg]

\* the ui_error messages of the failure that ended the remote phase
FailureMessages ==
    IF outcome = "raised" /\ \E f \in UIFailures : f.error = error
    THEN LET f == CHOOSE x \in UIFailures : x.error = error
         IN  [k \in DOMAIN f.titles |-> Error(f.titles[k])]
    ELSE <<>>

\* the messages of the loop for records 1..n: "Importing item...", then one
\* "Skipped" error for each of its inserts that raised
RECURSIVE ItemMessages(_)
ItemMessages(n) ==
    IF n = 0 THEN <<>>
    ELSE ItemMessages(n - 1)
         \o <<Info("Importing item...")>>
         \o (IF \E j \in DOMAIN hdr_calls : hdr_calls[j].item = n /\ hdr_calls[j].raised
             THEN <<Error("Skipped TMP_REC_BAT")>> ELSE <<>>)
         \o (IF \E j \in DOMAIN dtl_calls : dtl_calls[j].item = n /\ dtl_calls[j].raised
             THEN <<Error("Skipped TMP_REC_DTL")>> ELSE <<>>)

\* everything run_import has put in ui_queue since the remote phase ended
ui_queue ==
    FailureMessages
    \o (IF pc = "download" \/ outcome = "raised" THEN <<>>
        ELSE <<Info("Download complete."),
               IF data_items = <<>> THEN Info("No approved orders found.")
               ELSE Info("Inserting into SMS TMP tables...")>>)
    \o ItemMessages(IF pc = "send_recdtl" THEN idx ELSE idx - 1)
    \o (IF pc \in {"finally", "done", "reported"} /\ outcome = "returned"
           /\ data_items # <<>>
        THEN (IF totals.hdr_skipped # 0 \/ totals.dtl_skipped # 0
              THEN <<Warn("Import finished with skipped rows")>> ELSE <<>>)
             \o <<Info("Import completed.")>>
        ELSE <<>>)
    \o (IF pc \in {"done", "reported"}
        THEN (IF conn = "closed" THEN <<Info("SQL connection closed.")>> ELSE <<>>)
             \o <<Info(IF totals.hdr_inserts > 0 THEN "order(s) were imported"
                       ELSE "No orders were imported")>>
        ELSE <<>>)

InitUI ==
    /\ \/ /\ pc = "download"
          /\ conn = "open"
          /\ db_sessions = 1
          /\ http = {"login", "submit", "poll"}
          /\ data_items \in UIResultSets(MaxItems)
          /\ outcome = "running"
          /\ error = "None"
       \/ \E f \in UIFailures :
             /\ pc = "finally"
             /\ conn = f.conn
             /\ db_sessions = f.db_sessions
             /\ http = IF f.conn = "None" THEN {} ELSE {"login"}
             /\ data_items = <<>>
             /\ outcome = "raised"
             /\ error = f.error
    /\ auth_token = "None"
    /\ job_id = "None"
    /\ last_status = None
    /\ elapsed = 0
    /\ totals = ZeroTotals
    /\ seen_headers = {}
    /\ line_number = 1
    /\ idx = 1
    /\ vendor_cache = EmptyCache
    /\ TMP_REC_BAT = <<>>
    /\ TMP_REC_DTL = <<>>
    /\ hdr_calls = <<>>
    /\ dtl_calls = <<>>
    /\ summary = <<>>
    /\ vendor_lookups = <<>>
    /\ polls = <<>>
    /\ status_events = <<>>
    /\ tx_pending = <<>>
    /\ requests = <<>>
    /\ ui_taken = 0
    /\ ui_calls = <<>>
    /\ window = StartWindow

WorkerTitle_exception_unmarked(t, raised) ==
    IF t.items_seen = 0 THEN "No approved orders"
    ELSE IF t.hdr_inserts = 0 THEN "No orders imported"
    ELSE "Done"

\* the title worker gives the run: from the totals run_import returned, or
\* "Import failed" for the exception that left it
WorkerTitle(t, raised) ==
    IF raised THEN "Import failed"
    ELSE IF t.items_seen = 0 THEN "No approved orders"
    ELSE IF t.hdr_inserts = 0 THEN "No orders imported"
    ELSE "Done"

\* the worker without its except branch: an exception ends the thread unreported
WorkerReport_exception_lost ==
    /\ pc = "done"
    /\ pc' = "reported"
    /\ ui_calls' = IF outcome = "raised" THEN ui_calls
                   ELSE Append(ui_calls,
                               [fn |-> "done", msg |-> WorkerTitle(totals, FALSE)])
    /\ UNCHANGED <<conn, db_sessions, http, auth_token, job_id, last_status, elapsed,
                   data_items, totals, seen_headers, line_number, idx, vendor_cache,
                   TMP_REC_BAT, TMP_REC_DTL, hdr_calls, dtl_calls, outcome, error,
                   summary, vendor_lookups, polls, status_events, tx_pending,
                   requests, ui_taken, window>>

\* worker, once run_import is over: ui.root.after(0, ui.done, title, detail),
\* or ui.root.after(0, ui.error, "Import failed", str(e))
WorkerReport ==
    /\ pc = "done"
    /\ pc' = "reported"
    /\ ui_calls' = Append(ui_calls,
                          [fn |-> IF outcome = "raised" THEN "error" ELSE "done",
                           msg |-> WorkerTitle(totals, outcome = "raised")])
    /\ UNCHANGED <<conn, db_sessions, http, auth_token, job_id, last_status, elapsed,
                   data_items, totals, seen_headers, line_number, idx, vendor_cache,
                   TMP_REC_BAT, TMP_REC_DTL, hdr_calls, dtl_calls, outcome, error,
                   summary, vendor_lookups, polls, status_events, tx_pending,
                   requests, ui_taken, window>>

\* StatusUI._append_message: list the message and count it
append_message(w, level, msg) ==
    [w EXCEPT !.listbox = Append(@, [level |-> level, msg |-> msg]),
              !.errors_count = IF level = "ERROR" THEN @ + 1 ELSE @,
              !.warn_count = IF level = "WARN" THEN @ + 1 ELSE @]

\* StatusUI.done and StatusUI.error, run by the Tk loop for the worker
ui_done(w, msg) == [w EXCEPT !.msg = msg, !.close_enabled = TRUE]

\* StatusUI.pump_queue for the (level, msg, detail) items taken from the queue:
\* each becomes the status line, warnings and errors are listed as well, and
\* an item of level DONE is given to done()
RECURSIVE pump_queue(_, _)
pump_queue(w, items) ==
    IF items = <<>> THEN w
    ELSE LET item == Head(items)
             shown == [w EXCEPT !.msg = item.msg]
         IN  pump_queue(IF item.level \in {"WARN", "ERROR"}
                        THEN append_message(shown, item.level, item.msg)
                        ELSE IF item.level = "DONE" THEN ui_done(shown, item.msg)
                        ELSE shown,
                        Tail(items))
ui_error(w, msg) ==
    [append_message([w EXCEPT !.msg = msg], "ERROR", msg) EXCEPT !.close_enabled = TRUE]

\* what no action of the Tk loop touches: the state of run_import
UnchangedByUI ==
    UNCHANGED <<pc, conn, db_sessions, http, auth_token, job_id, last_status, elapsed,
                data_items, totals, seen_headers, line_number, idx, vendor_cache,
                TMP_REC_BAT, TMP_REC_DTL, hdr_calls, dtl_calls, outcome, error,
                summary, vendor_lookups, polls, status_events, tx_pending, requests>>

\* the 100 ms timer: pump_queue empties the queue
PumpQueue ==
    /\ window.open
    /\ ui_taken < Len(ui_queue)
    /\ window' = pump_queue(window, SubSeq(ui_queue, ui_taken + 1, Len(ui_queue)))
    /\ ui_taken' = Len(ui_queue)
    /\ UNCHANGED ui_calls
    /\ UnchangedByUI

\* the Tk loop runs the callback the worker scheduled
RunCallback ==
    /\ window.open
    /\ ui_calls # <<>>
    /\ window' = IF Head(ui_calls).fn = "done"
                 THEN ui_done(window, Head(ui_calls).msg)
                 ELSE ui_error(window, Head(ui_calls).msg)
    /\ ui_calls' = Tail(ui_calls)
    /\ UNCHANGED ui_taken
    /\ UnchangedByUI

ClearMessages_resets_totals ==
    /\ window.open
    /\ window.listbox # <<>>
    /\ window' = [window EXCEPT !.listbox = <<>>, !.errors_count = 0, !.warn_count = 0]
    /\ totals' = ZeroTotals
    /\ UNCHANGED <<ui_taken, ui_calls>>
    /\ UNCHANGED <<pc, conn, db_sessions, http, auth_token, job_id, last_status, elapsed,
                   data_items, seen_headers, line_number, idx, vendor_cache,
                   TMP_REC_BAT, TMP_REC_DTL, hdr_calls, dtl_calls, outcome, error,
                   summary, vendor_lookups, polls, status_events, tx_pending, requests>>

\* the Clear button: StatusUI._clear_messages
ClearMessages ==
    /\ window.open
    /\ window.listbox # <<>>
    /\ window' = [window EXCEPT !.listbox = <<>>, !.errors_count = 0, !.warn_count = 0]
    /\ UNCHANGED <<ui_taken, ui_calls>>
    /\ UnchangedByUI

\* the close box without the test of the Close button
CloseWindow_while_disabled ==
    /\ window.open
    /\ window' = [window EXCEPT !.open = FALSE]
    /\ UNCHANGED <<ui_taken, ui_calls>>
    /\ UnchangedByUI

\* the Close button or the window's close box (_on_close_attempt), which do
\* nothing while Close is disabled: root.destroy ends the Tk loop
CloseWindow ==
    /\ window.open
    /\ window.close_enabled
    /\ window' = [window EXCEPT !.open = FALSE]
    /\ UNCHANGED <<ui_taken, ui_calls>>
    /\ UnchangedByUI

NextUI ==
    \/ Download
    \/ ImportHeader
    \/ ImportDetail
    \/ ImportCompleted
    \/ Finally
    \/ WorkerReport
    \/ PumpQueue
    \/ RunCallback
    \/ ClearMessages
    \/ CloseWindow

SpecUI == InitUI /\ [][NextUI]_vars

----------------------------------------------------------------------------
(* The run from the payload of the finished job on, with the status window:  *)
(* the "data" field of the payload may be a list, null or absent              *)

\* the "data" field of a finished payload
PayloadData(sets) ==
    { [kind |-> "absent", items |-> <<>>], [kind |-> "null", items |-> <<>>] }
    \cup { [kind |-> "list", items |-> d] : d \in sets }

\* wait_for_job_completion has returned a payload, or the run has failed before
InitPayload == InitUI /\ data_items = <<>>

\* data_items = job_status.get("data", []): the default is taken for an absent
\* field only, so a null field gives None and len(data_items) raises TypeError
\* before anything is put in the queue; else the empty test
DownloadPayload ==
    /\ pc = "download"
    /\ \E field \in PayloadData(UIResultSets(MaxItems)) :
          IF field.kind = "null"
          THEN /\ RaiseError("TypeError")
               /\ UNCHANGED <<data_items, totals, seen_headers, line_number, idx>>
          ELSE /\ data_items' = field.items
               /\ error' = error
               /\ IF field.items = <<>>
                  THEN /\ totals' = [totals EXCEPT !.items_seen = 0]
                       /\ pc' = "finally"
                       /\ outcome' = "returned"
                       /\ UNCHANGED <<seen_headers, line_number, idx>>
                  ELSE /\ seen_headers' = {}
                       /\ line_number' = 1
                       /\ idx' = 1
                       /\ pc' = "for_item"
                       /\ UNCHANGED <<totals, outcome>>
    /\ UNCHANGED <<requests, ui_taken, ui_calls, window,
                   conn, db_sessions, http, auth_token, job_id, last_status, elapsed,
                   vendor_cache, TMP_REC_BAT, TMP_REC_DTL, hdr_calls,
                   dtl_calls, summary, vendor_lookups, polls, status_events, tx_pending>>

\* the steps of the worker thread
WorkerPayload ==
    \/ DownloadPayload
    \/ ImportHeader
    \/ ImportDetail
    \/ ImportCompleted
    \/ Finally
    \/ WorkerReport

NextPayload ==
    \/ WorkerPayload
    \/ PumpQueue
    \/ RunCallback
    \/ ClearMessages
    \/ CloseWindow

SpecPayload == InitPayload /\ [][NextPayload]_vars

\* every database call of the worker returns and the Tk loop keeps running
SpecPayloadFair ==
    SpecPayload /\ WF_vars(WorkerPayload) /\ WF_vars(RunCallback) /\ WF_vars(PumpQueue)

----------------------------------------------------------------------------
(* The record loop over order identifiers of every shape *)

\* case_order_number values: missing, empty, numeric, numeric with a leading
\* zero, and not numeric
OrderIds == { None, <<>>, <<"3">>, <<"0", "7">>, <<"P">> }

OrderIdRecords == [vendor_number : { <<"1">> }, case_order_number : OrderIds,
                   sku : { <<"A">> }]

RECURSIVE OrderIdResultSets(_)
OrderIdResultSets(n) ==
    IF n = 0 THEN { <<>> }
    ELSE OrderIdResultSets(n - 1)
         \cup { Append(d, r) : d \in { x \in OrderIdResultSets(n - 1) : Len(x) = n - 1 },
                               r \in OrderIdRecords }

\* run_import when the job has finished with one of the result sets
InitDownload(sets) ==
    /\ pc = "download"
    /\ conn = "open"
    /\ db_sessions = 1
    /\ http = {"login", "submit", "poll"}
    /\ auth_token = "T1"
    /\ job_id = "J1"
    /\ last_status = None
    /\ elapsed = 0
    /\ data_items \in sets
    /\ totals = ZeroTotals
    /\ seen_headers = {}
    /\ line_number = 1
    /\ idx = 1
    /\ vendor_cache = EmptyCache
    /\ TMP_REC_BAT = <<>>
    /\ TMP_REC_DTL = <<>>
    /\ hdr_calls = <<>>
    /\ dtl_calls = <<>>
    /\ outcome = "running"
    /\ error = "None"
    /\ summary = <<>>
    /\ vendor_lookups = <<>>
    /\ polls = <<>>
    /\ status_events = <<>>
    /\ tx_pending = <<>>
    /\ requests = <<>>
    /\ ui_taken = 0
    /\ ui_calls = <<>>
    /\ window = StartWindow

InitOrderIds == InitDownload(OrderIdResultSets(MaxItems))

NextOrderIds ==
    \/ Download
    \/ ImportHeader
    \/ ImportDetail
    \/ ImportCompleted
    \/ Finally

SpecOrderIds == InitOrderIds /\ [][NextOrderIds]_vars

----------------------------------------------------------------------------
(* The variant src/src/import_orders_into_smsNW.py: main, from the download  *)
(* on, with its own send_rechdr, send_recdtl and verify_tmp_counts           *)

\* str(n) of a natural number
DigitText == <<"0", "1", "2", "3", "4", "5", "6", "7", "8", "9">>

RECURSIVE IntText(_)
IntText(n) ==
    IF n < 10 THEN <<DigitText[n + 1]>>
    ELSE IntText(n \div 10) \o <<DigitText[(n % 10) + 1]>>

\* vendor_case_key = f"{item.get('vendor_number')}{po}", po = safe_int(...)
vendor_case_key_NW(item) ==
    str(item.vendor_number) \o IntText(safe_int(item.case_order_number, 0))

NWRecords == [vendor_number : { <<"1">> }, case_order_number : Orders,
              sku : { <<>>, <<"A">> }]

RECURSIVE NWResultSets(_)
NWResultSets(n) ==
    IF n = 0 THEN { <<>> }
    ELSE NWResultSets(n - 1)
         \cup { Append(d, r) : d \in { x \in NWResultSets(n - 1) : Len(x) = n - 1 },
                               r \in NWRecords }

\* get_vendor_name: the SELECT on VENDOR_TAB, every error of which is raised
get_vendor_name_NW(vendor_number, db) ==
    IF ~db.cursor \/ ~db.query
    THEN [raised |-> TRUE, name |-> <<>>]
    ELSE [raised |-> FALSE,
          name |-> IF str(vendor_number) \in DOMAIN VENDOR_TAB
                   THEN strip(VENDOR_TAB[str(vendor_number)]) ELSE <<>>]

\* send_rechdr of the variant: the vendor lookup, one INSERT INTO TMP_REC_BAT
\* and its commit; it returns 1
send_rechdr_NW(item, tx, db) ==
    LET looked == get_vendor_name_NW(item.vendor_number, db)
        row == [F1032 |-> safe_int(item.case_order_number, 0),
                F27   |-> item.vendor_number,
                F91   |-> safe_int(item.case_order_number, 0),
                F334  |-> looked.name]
        done == CommitInsert([table |-> "TMP_REC_BAT", row |-> row], tx, db)
    IN  IF looked.raised \/ ~db.execute
        THEN [raised |-> TRUE, committed |-> <<>>, tx |-> tx]
        ELSE [raised |-> done.raised, committed |-> done.committed, tx |-> done.tx]

\* send_recdtl of the variant: the sku test, one INSERT INTO TMP_REC_DTL and
\* its commit; it returns 1
send_recdtl_NW(item, line_num, tx, db) ==
    LET sku == IF Truthy(item.sku) THEN strip(str(item.sku)) ELSE <<>>
        row == [F1032 |-> safe_int(item.case_order_number, 0),
                F1101 |-> line_num,
                F01   |-> sku]
        done == CommitInsert([table |-> "TMP_REC_DTL", row |-> row], tx, db)
    IN  IF sku = <<>> \/ ~db.cursor \/ ~db.execute
        THEN [raised |-> TRUE, committed |-> <<>>, tx |-> tx]
        ELSE [raised |-> done.raised, committed |-> done.committed, tx |-> done.tx]

\* except Exception as e: logging.exception(f"Run failed: {e}"), then finally
RunFailedNW(e) == pc' = "finally" /\ outcome' = "failed" /\ error' = e

InitNW == InitDownload(NWResultSets(MaxItems))

\* data_items = job_status.get("data", []) and the test of an empty list
DownloadNW ==
    /\ pc = "download"
    /\ IF data_items = <<>>
       THEN \* raise RuntimeError("API returned 0 items. Nothing to import.")
            /\ RunFailedNW("EmptyResult")
            /\ UNCHANGED <<seen_headers, line_number, idx>>
       ELSE /\ seen_headers' = {}
            /\ line_number' = 1
            /\ idx' = 1
            /\ pc' = "for_item"
            /\ UNCHANGED <<outcome, error>>
    /\ UNCHANGED <<requests, ui_taken, ui_calls, window,
                   conn, db_sessions, http, auth_token, job_id, last_status, elapsed,
                   data_items, totals, vendor_cache, TMP_REC_BAT, TMP_REC_DTL, hdr_calls,
                   dtl_calls, summary, vendor_lookups, polls, status_events, tx_pending>>

\* for item in data_items: the key, and send_rechdr if the key is unseen
HeaderNW ==
    /\ pc = "for_item"
    /\ idx <= Len(data_items)
    /\ LET item == data_items[idx]
           key  == vendor_case_key_NW(item)
       IN  IF key \notin seen_headers
           THEN \E db \in DbAnswers :
                  LET r == send_rechdr_NW(item, tx_pending, db)
                  IN  /\ TMP_REC_BAT' = TMP_REC_BAT \o RowsOf("TMP_REC_BAT", r.committed)
                      /\ TMP_REC_DTL' = TMP_REC_DTL \o RowsOf("TMP_REC_DTL", r.committed)
                      /\ tx_pending' = r.tx
                      /\ hdr_calls' = Append(hdr_calls, [item |-> idx, raised |-> r.raised])
                      /\ IF r.raised
                         THEN /\ RunFailedNW("InsertError")
                              /\ UNCHANGED seen_headers
                         ELSE /\ seen_headers' = seen_headers \cup {key}
                              /\ pc' = "send_recdtl"
                              /\ UNCHANGED <<outcome, error>>
           ELSE /\ pc' = "send_recdtl"
                /\ UNCHANGED <<TMP_REC_BAT, TMP_REC_DTL, tx_pending, seen_headers,
                               hdr_calls, outcome, error>>
    /\ UNCHANGED <<requests, ui_taken, ui_calls, window,
                   conn, db_sessions, http, auth_token, job_id, last_status, elapsed,
                   data_items, totals, line_number, idx, vendor_cache, dtl_calls, summary,
                   vendor_lookups, polls, status_events>>

\* send_recdtl(conn, item, line_number), then line_number += 1
DetailNW ==
    /\ pc = "send_recdtl"
    /\ \E db \in DbAnswers :
          LET r == send_recdtl_NW(data_items[idx], line_number, tx_pending, db)
          IN  /\ TMP_REC_BAT' = TMP_REC_BAT \o RowsOf("TMP_REC_BAT", r.committed)
              /\ TMP_REC_DTL' = TMP_REC_DTL \o RowsOf("TMP_REC_DTL", r.committed)
              /\ tx_pending' = r.tx
              /\ dtl_calls' = Append(dtl_calls, [item |-> idx, line |-> line_number,
                                                 raised |-> r.raised])
              /\ IF r.raised
                 THEN /\ RunFailedNW("InsertError")
                      /\ UNCHANGED <<line_number, idx>>
                 ELSE /\ line_number' = line_number + 1
                      /\ idx' = idx + 1
                      /\ pc' = "for_item"
                      /\ UNCHANGED <<outcome, error>>
    /\ UNCHANGED <<requests, ui_taken, ui_calls, window,
                   conn, db_sessions, http, auth_token, job_id, last_status, elapsed,
                   data_items, totals, seen_headers, vendor_cache, hdr_calls, summary,
                   vendor_lookups, polls, status_events>>

\* the loop is over: verify_tmp_counts(conn, last_po) if last_po is not 0,
\* then "Import completed successfully"
VerifyNW ==
    /\ pc = "for_item"
    /\ idx > Len(data_items)
    /\ LET last_po == safe_int(data_items[Len(data_items)].case_order_number, 0)
           bat_cnt == Cardinality({ h \in DOMAIN TMP_REC_BAT : TMP_REC_BAT[h].F91 = last_po })
           dtl_cnt == Cardinality({ d \in DOMAIN TMP_REC_DTL : TMP_REC_DTL[d].F1032 = last_po })
       IN  \E db \in DbAnswers :
              IF last_po # 0 /\ (~db.cursor \/ ~db.query)
              THEN RunFailedNW("VerifyError")
              ELSE IF last_po # 0 /\ (bat_cnt <= 0 \/ dtl_cnt <= 0)
              THEN RunFailedNW("RowsMissing")
              ELSE /\ pc' = "finally"
                   /\ outcome' = "returned"
                   /\ UNCHANGED error
    /\ UNCHANGED <<requests, ui_taken, ui_calls, window,
                   conn, db_sessions, http, auth_token, job_id, last_status, elapsed,
                   data_items, totals, seen_headers, line_number, idx, vendor_cache,
                   TMP_REC_BAT, TMP_REC_DTL, hdr_calls, dtl_calls, summary,
                   vendor_lookups, polls, status_events, tx_pending>>

\* finally: conn.close() inside its own try, then "=== End run ==="
FinallyNW ==
    /\ pc = "finally"
    /\ \E close_raised \in BOOLEAN :
          IF conn = "open" /\ ~close_raised
          THEN /\ conn' = "closed"
               /\ db_sessions' = db_sessions - 1
               /\ tx_pending' = <<>>
          ELSE UNCHANGED <<conn, db_sessions, tx_pending>>
    /\ pc' = "done"
    /\ UNCHANGED <<requests, ui_taken, ui_calls, window,
                   http, auth_token, job_id, last_status, elapsed, data_items, totals,
                   seen_headers, line_number, idx, vendor_cache, TMP_REC_BAT,
                   TMP_REC_DTL, hdr_calls, dtl_calls, outcome, error, summary,
                   vendor_lookups, polls, status_events>>

NextNW ==
    \/ DownloadNW
    \/ HeaderNW
    \/ DetailNW
    \/ VerifyNW
    \/ FinallyNW

SpecNW == InitNW /\ [][NextNW]_vars

----------------------------------------------------------------------------
(* The Working Version, src/src/Working Version/import_orders_into_sms -     *)
(* 2025-12-22.py: main from the download on, its rows with every column      *)

\* the 19 values run_import's send_rechdr gives the INSERT INTO TMP_REC_BAT;
\* the fields of the record that are passed as they come are named, not valued
rechdr_values(case_order_number, vendor_number, vendor_name) ==
    [F1032 |-> str(case_order_number), F27 |-> vendor_number,
     F76 |-> "approval_date", F91 |-> case_order_number, F253 |-> "approval_date",
     F254 |-> "effective_date", F334 |-> vendor_name, F352 |-> 88454,
     F1035 |-> 121609, F1036 |-> 121609, F1056 |-> "00 + store_number",
     F1057 |-> "901", F1067 |-> "OPEN", F1068 |-> "ORDER", F1101 |-> 1,
     F1126 |-> 757, F1127 |-> "Upshop Order", F1246 |-> "effective_date",
     F1653 |-> "effective_date"]

\* the 12 values run_import's send_recdtl gives the INSERT INTO TMP_REC_DTL
recdtl_values(item, line_num) ==
    [F1032 |-> safe_int(item.case_order_number, 0), F1101 |-> line_num,
     F01 |-> safe_str(item.sku), F03 |-> "safe_int(department_number)",
     F1003 |-> "float(order_quantity)", F1041 |-> "safe_str(description)",
     F1063 |-> 3510, F1067 |-> "ITEM", F1184 |-> "CASE", F1887 |-> "C",
     F75 |-> "float(order_quantity)", F76 |-> "approval_date"]

\* the same two tuples in the Working Version
rechdr_values_WV(case_order_number, vendor_number, vendor_name) ==
    [F1032 |-> str(case_order_number), F27 |-> vendor_number,
     F76 |-> "approval_date", F91 |-> case_order_number, F253 |-> "approval_date",
     F254 |-> "effective_date", F334 |-> vendor_name, F352 |-> 88454,
     F1035 |-> 121609, F1036 |-> 121609, F1056 |-> "00 + store_number",
     F1057 |-> "901", F1067 |-> "OPEN", F1068 |-> "ORDER", F1101 |-> 1,
     F1126 |-> 757, F1127 |-> "STCR Inc", F1246 |-> "effective_date",
     F1653 |-> "effective_date"]

recdtl_values_WV(item, line_num) ==
    [F1032 |-> safe_int(item.case_order_number, 0), F1101 |-> line_num,
     F01 |-> safe_str(item.sku), F03 |-> "safe_int(department_number)",
     F1003 |-> "float(order_quantity)", F1041 |-> "safe_str(description)",
     F1063 |-> 3510, F1067 |-> "ITEM", F1184 |-> "CASE", F1887 |-> "C",
     F75 |-> "float(order_quantity)", F76 |-> "approval_date"]

\* get_vendor_name_cached of the Working Version: the cached name, or the
\* SELECT on VENDOR_TAB, an error of which is logged and cached as ""
get_vendor_name_cached_WV(vendor_number, cache, db) ==
    LET key == safe_str(vendor_number)
    IN  IF key \in DOMAIN cache
        THEN [name |-> cache[key], cache |-> cache]
        ELSE IF db.query
        THEN LET vendor_name == IF str(vendor_number) \in DOMAIN VENDOR_TAB
                                THEN strip(VENDOR_TAB[str(vendor_number)])
                                ELSE <<>>
             IN  [name |-> vendor_name, cache |-> (key :> vendor_name) @@ cache]
        ELSE [name |-> <<>>, cache |-> (key :> <<>>) @@ cache]

\* send_rechdr of the Working Version
send_rechdr_WV(item, cache, tx, db) ==
    IF ~db.cursor
    THEN [raised |-> TRUE, rows_affected |-> 0, cache |-> cache,
          committed |-> <<>>, tx |-> tx]
    ELSE LET looked == get_vendor_name_cached_WV(item.vendor_number, cache, db)
             row == rechdr_values_WV(item.case_order_number, item.vendor_number,
                                     looked.name)
             done == CommitInsert([table |-> "TMP_REC_BAT", row |-> row], tx, db)
         IN  IF db.execute
             THEN [raised |-> done.raised, rows_affected |-> done.rows_affected,
                   cache |-> looked.cache, committed |-> done.committed, tx |-> done.tx]
             ELSE [raised |-> TRUE, rows_affected |-> 0, cache |-> looked.cache,
                   committed |-> <<>>, tx |-> tx]

\* send_recdtl of the Working Version
send_recdtl_WV(item, line_num, tx, db) ==
    LET row == recdtl_values_WV(item, line_num)
        done == CommitInsert([table |-> "TMP_REC_DTL", row |-> row], tx, db)
    IN  IF ~db.cursor \/ safe_str(item.sku) = <<>> \/ ~db.execute
        THEN [raised |-> TRUE, rows_affected |-> 0, committed |-> <<>>, tx |-> tx]
        ELSE [raised |-> done.raised, rows_affected |-> done.rows_affected,
              committed |-> done.committed, tx |-> done.tx]

WorkingRecords == [vendor_number : { <<"1">> }, case_order_number : Orders,
                   sku : { <<>>, <<"A">> }]

RECURSIVE WorkingResultSets(_)
WorkingResultSets(n) ==
    IF n = 0 THEN { <<>> }
    ELSE WorkingResultSets(n - 1)
         \cup { Append(d, r) : d \in { x \in WorkingResultSets(n - 1) : Len(x) = n - 1 },
                               r \in WorkingRecords }

InitWorking == InitDownload(WorkingResultSets(MaxItems))

\* data_items = job_status.get("data", []); "API returned 0 items" and return
DownloadWV ==
    /\ pc = "download"
    /\ IF data_items = <<>>
       THEN /\ pc' = "finally"
            /\ outcome' = "returned"
            /\ UNCHANGED <<seen_headers, line_number, idx>>
       ELSE /\ seen_headers' = {}
            /\ line_number' = 1
            /\ idx' = 1
            /\ pc' = "for_item"
            /\ UNCHANGED outcome
    /\ UNCHANGED <<requests, ui_taken, ui_calls, window,
                   conn, db_sessions, http, auth_token, job_id, last_status, elapsed,
                   data_items, totals, vendor_cache, TMP_REC_BAT, TMP_REC_DTL, hdr_calls,
                   dtl_calls, error, summary, vendor_lookups, polls, status_events,
                   tx_pending>>

\* for item in data_items: count it, build the key, send_rechdr in its try
\* if the key is unseen
HeaderWV ==
    /\ pc = "for_item"
    /\ idx <= Len(data_items)
    /\ LET item == data_items[idx]
           key  == str(item.vendor_number) \o str(item.case_order_number)
           seen == [totals EXCEPT !.items_seen = @ + 1]
       IN  IF key \notin seen_headers
           THEN \E db \in DbAnswers :
                  LET r == send_rechdr_WV(item, vendor_cache, tx_pending, db)
                  IN  /\ vendor_cache' = r.cache
                      /\ TMP_REC_BAT' = TMP_REC_BAT \o RowsOf("TMP_REC_BAT", r.committed)
                      /\ TMP_REC_DTL' = TMP_REC_DTL \o RowsOf("TMP_REC_DTL", r.committed)
                      /\ tx_pending' = r.tx
                      /\ totals' = IF r.raised
                                   THEN [seen EXCEPT !.hdr_skipped = @ + 1]
                                   ELSE [seen EXCEPT !.hdr_inserts =
                                                        @ + RowsOrZero(r.rows_affected)]
                      /\ seen_headers' = IF r.raised THEN seen_headers
                                         ELSE seen_headers \cup {key}
                      /\ hdr_calls' = Append(hdr_calls, [item |-> idx, raised |-> r.raised])
           ELSE /\ totals' = seen
                /\ UNCHANGED <<vendor_cache, TMP_REC_BAT, TMP_REC_DTL, tx_pending,
                               seen_headers, hdr_calls>>
    /\ pc' = "send_recdtl"
    /\ UNCHANGED <<requests, ui_taken, ui_calls, window,
                   conn, db_sessions, http, auth_token, job_id, last_status, elapsed,
                   data_items, line_number, idx, dtl_calls, outcome, error, summary,
                   vendor_lookups, polls, status_events>>

\* send_recdtl in its try, then line_number += 1
DetailWV ==
    /\ pc = "send_recdtl"
    /\ \E db \in DbAnswers :
          LET r == send_recdtl_WV(data_items[idx], line_number, tx_pending, db)
          IN  /\ TMP_REC_BAT' = TMP_REC_BAT \o RowsOf("TMP_REC_BAT", r.committed)
              /\ TMP_REC_DTL' = TMP_REC_DTL \o RowsOf("TMP_REC_DTL", r.committed)
              /\ tx_pending' = r.tx
              /\ totals' = IF r.raised
                           THEN [totals EXCEPT !.dtl_skipped = @ + 1]
                           ELSE [totals EXCEPT !.dtl_inserts =
                                                  @ + RowsOrZero(r.rows_affected)]
              /\ dtl_calls' = Append(dtl_calls, [item |-> idx, line |-> line_number,
                                                 raised |-> r.raised])
    /\ line_number' = line_number + 1
    /\ idx' = idx + 1
    /\ pc' = "for_item"
    /\ UNCHANGED <<requests, ui_taken, ui_calls, window,
                   conn, db_sessions, http, auth_token, job_id, last_status, elapsed,
                   data_items, seen_headers, vendor_cache, hdr_calls, outcome, error,
                   summary, vendor_lookups, polls, status_events>>

\* the loop is exhausted: control reaches the finally clause
CompletedWV ==
    /\ pc = "for_item"
    /\ idx > Len(data_items)
    /\ pc' = "finally"
    /\ outcome' = "returned"
    /\ UNCHANGED <<requests, ui_taken, ui_calls, window,
                   conn, db_sessions, http, auth_token, job_id, last_status, elapsed,
                   data_items, totals, seen_headers, line_number, idx, vendor_cache,
                   TMP_REC_BAT, TMP_REC_DTL, hdr_calls, dtl_calls, error, summary,
                   vendor_lookups, polls, status_events, tx_pending>>

\* finally: conn.close() in its try, then the "Run summary" line
FinallyWV ==
    /\ pc = "finally"
    /\ \E close_raised \in BOOLEAN :
          IF conn = "open" /\ ~close_raised
          THEN /\ conn' = "closed"
               /\ db_sessions' = db_sessions - 1
               /\ tx_pending' = <<>>
          ELSE UNCHANGED <<conn, db_sessions, tx_pending>>
    /\ summary' = Append(summary, totals)
    /\ pc' = "done"
    /\ UNCHANGED <<requests, ui_taken, ui_calls, window,
                   http, auth_token, job_id, last_status, elapsed, data_items, totals,
                   seen_headers, line_number, idx, vendor_cache, TMP_REC_BAT,
                   TMP_REC_DTL, hdr_calls, dtl_calls, outcome, error,
                   vendor_lookups, polls, status_events>>

NextWorking ==
    \/ DownloadWV
    \/ HeaderWV
    \/ DetailWV
    \/ CompletedWV
    \/ FinallyWV

SpecWorking == InitWorking /\ [][NextWorking]_vars

----------------------------------------------------------------------------
(* Vocabulary of the properties *)

\* the record loop has run to its end
LoopDone == pc \in {"finally", "done"} /\ data_items # <<>>

\* records whose header step is over, and records processed completely
HeaderDone == 1..(idx - 1) \cup (IF pc = "send_recdtl" THEN {idx} ELSE {})
DetailDone == 1..(idx - 1)

KeyOf(i) == vendor_case_key(data_items[i])
KeysOf(S) == { KeyOf(i) : i \in S }
PairsOf(S) == { <<data_items[i].vendor_number, data_items[i].case_order_number>> : i \in S }
AllItems == 1..Len(data_items)

HdrFailed == { j \in DOMAIN hdr_calls : hdr_calls[j].raised }
HdrInserted == { j \in DOMAIN hdr_calls : ~hdr_calls[j].raised }
DtlFailed == { j \in DOMAIN dtl_calls : dtl_calls[j].raised }
DtlInserted == { j \in DOMAIN dtl_calls : ~dtl_calls[j].raised }

HdrCalledFor(i) == \E j \in DOMAIN hdr_calls : hdr_calls[j].item = i
DtlCalledFor(i) == \E j \in DOMAIN dtl_calls : dtl_calls[j].item = i

\* a header insert failed and a later record carries the same key
KeyRetried ==
    \E j \in HdrFailed : \E i \in AllItems :
        i > hdr_calls[j].item /\ KeyOf(i) = KeyOf(hdr_calls[j].item)

\* the dedup key of a committed header row
RowKey(row) == str(row.F27) \o str(row.F91)

\* a sku that is missing, empty or made of whitespace only
BlankSku(v) == v = None \/ \A i \in 1..Len(v) : v[i] = " "

----------------------------------------------------------------------------
C2_DetailCountsAreItemsSeen ==
    /\ pc # "send_recdtl" =>
          totals.dtl_inserts + totals.dtl_skipped = totals.items_seen
    /\ pc = "send_recdtl" =>
          totals.dtl_inserts + totals.dtl_skipped + 1 = totals.items_seen
    /\ LoopDone => totals.items_seen = Len(data_items)

C2_Witness ==
    /\ pc = "done"
    /\ totals.items_seen = 2
    /\ totals.dtl_inserts = 1
    /\ totals.dtl_skipped = 1
    /\ \E i \in AllItems : BlankSku(data_items[i].sku)

C4_OneHeaderRowPerKey ==
    /\ \A a, b \in DOMAIN TMP_REC_BAT :
          a # b => RowKey(TMP_REC_BAT[a]) # RowKey(TMP_REC_BAT[b])
    /\ \A i \in DetailDone : DtlCalledFor(i)

C4_Witness ==
    /\ pc = "done"
    /\ Len(data_items) = 2
    /\ KeyOf(1) = KeyOf(2)
    /\ Len(TMP_REC_BAT) = 1
    /\ Len(dtl_calls) = 2

(* C5: when every header insert succeeds, the run writes one header row per  *)
(* distinct (vendor number, order number) pair of the result set.             *)
C5_OneHeaderPerVendorOrderPair ==
    (LoopDone /\ HdrFailed = {}) =>
        Len(TMP_REC_BAT) = Cardinality(PairsOf(AllItems))

C7_LineNumberIsRecordPosition ==
    /\ \A j \in DOMAIN dtl_calls : dtl_calls[j].item = j /\ dtl_calls[j].line = j
    /\ \A r \in DOMAIN TMP_REC_DTL : TMP_REC_DTL[r].F1101 \in { dtl_calls[j].line : j \in DOMAIN dtl_calls }
    /\ \A j \in DtlInserted : \E r \in DOMAIN TMP_REC_DTL : TMP_REC_DTL[r].F1101 = dtl_calls[j].line
    /\ pc \in {"for_item", "send_recdtl"} => line_number = idx

C7_Witness ==
    /\ Len(dtl_calls) = 2
    /\ KeyOf(1) # KeyOf(2)
    /\ dtl_calls[1].raised
    /\ HdrFailed # {}
    /\ Len(TMP_REC_DTL) = 1
    /\ TMP_REC_DTL[1].F1101 = 2

(* C8: a failed header or detail insert never ends the run: the detail       *)
(* insert of the same record and the inserts of all later records are still   *)
(* attempted, and only the skip counter of the failed insert moves.           *)
C8_InsertFailureDoesNotAbort ==
    /\ \A j \in HdrFailed : hdr_calls[j].item \in HeaderDone
    /\ \A i \in DetailDone : DtlCalledFor(i)
    /\ data_items # <<>> =>
          /\ pc \in {"download", "for_item", "send_recdtl", "finally", "done"}
          /\ outcome # "raised"
          /\ pc \in {"finally", "done"} => Len(dtl_calls) = Len(data_items)
    /\ totals.hdr_skipped = Cardinality(HdrFailed)
    /\ totals.dtl_skipped = Cardinality(DtlFailed)
    /\ totals.hdr_inserts = Cardinality(HdrInserted)
    /\ totals.dtl_inserts = Cardinality(DtlInserted)

C8_Witness ==
    /\ pc = "done"
    /\ outcome = "returned"
    /\ Len(hdr_calls) = 2
    /\ hdr_calls[1].raised
    /\ Len(dtl_calls) = 2
    /\ dtl_calls[1].raised
    /\ Len(TMP_REC_BAT) = 1
    /\ Len(TMP_REC_DTL) = 1

(* C9: a record whose sku is missing, empty or blank gets no detail row and  *)
(* one count in dtl_skipped; the run goes on, and every other record keeps    *)
(* its line number, its header attempt and its detail outcome.                *)
C9_BlankSkuIsSkipped ==
    /\ \A j \in DOMAIN dtl_calls :
          BlankSku(data_items[dtl_calls[j].item].sku) =>
              /\ dtl_calls[j].raised
              /\ ~ \E r \in DOMAIN TMP_REC_DTL : TMP_REC_DTL[r].F1101 = dtl_calls[j].line
    /\ \A r \in DOMAIN TMP_REC_DTL : ~BlankSku(TMP_REC_DTL[r].F01)
    /\ Len(TMP_REC_DTL) >= Cardinality(DtlInserted)
    /\ totals.dtl_skipped = Cardinality(DtlFailed)
    /\ \A j \in DOMAIN dtl_calls : dtl_calls[j].line = dtl_calls[j].item
    /\ LoopDone => outcome = "returned" /\ Len(dtl_calls) = Len(data_items)

C9_Witness ==
    /\ pc = "done"
    /\ Len(data_items) = 2
    /\ data_items[1].sku = <<" ">>
    /\ dtl_calls[1].raised
    /\ totals.dtl_skipped = 1
    /\ Len(TMP_REC_DTL) = 1
    /\ TMP_REC_DTL[1].F1101 = 2
    /\ Len(TMP_REC_BAT) = 1

(* C10: when pyodbc.connect or the SELECT 1 round trip fails, the run ends   *)
(* raised and no request is ever sent to the Upshop API.                      *)
C10_NoHttpWithoutDatabase ==
    /\ conn = "None" => http = {}
    /\ (conn = "None" /\ pc \in {"finally", "done"}) => outcome = "raised"

C10_Witness ==
    /\ pc = "done"
    /\ conn = "None"
    /\ db_sessions = 1
    /\ outcome = "raised"

----------------------------------------------------------------------------
(* C11..C20: the order of the external operations, the exits of the run,     *)
(* the polling loop and the vendor cache                                      *)

\* position of a control point in the body of run_import
StageOf(p) ==
    CASE p = "open_db"      -> 0
      [] p = "login"        -> 1
      [] p = "get_job_id"   -> 2
      [] p = "wait_for_job" -> 3
      [] p = "download"     -> 4
      [] p = "for_item"     -> 5
      [] p = "send_recdtl"  -> 5
      [] p = "finally"      -> 6
      [] p = "done"         -> 7

\* an insert into a staging table has been attempted
InsertAttempted == hdr_calls # <<>> \/ dtl_calls # <<>>

(* C11: the external operations come in the order connectivity validation,   *)
(* login, job submission, polls, staging inserts: control never goes back to  *)
(* an earlier operation; the steps taken at the login and submit points leave *)
(* them at once, so each request is sent once; a login needs an open          *)
(* connection, a submit a login, a poll a submit; polls are sent only in the  *)
(* polling loop, which is left at the first terminal status and not entered   *)
(* again; an insert needs a poll that returned a result set.                  *)
C11_FixedOrder ==
    [][ /\ StageOf(pc') >= StageOf(pc)
        /\ pc \in {"open_db", "login", "get_job_id"} => StageOf(pc') > StageOf(pc)
        /\ "login" \notin http => (http' = http \/ http' = {"login"})
        /\ "login" \in http' => conn' # "None"
        /\ "submit" \in http' => "login" \in http'
        /\ "poll" \in http' => "submit" \in http'
        /\ http' # http => /\ pc \in {"login", "get_job_id", "wait_for_job"}
                           /\ pc = "login" => http' \ http = {"login"}
                           /\ pc = "get_job_id" => http' \ http = {"submit"}
                           /\ pc = "wait_for_job" => http' \ http = {"poll"}
        /\ pc = "login" => "login" \notin http
        /\ pc = "get_job_id" => "submit" \notin http
        /\ InsertAttempted' => /\ "poll" \in http'
                               /\ StageOf(pc') > StageOf("download")
                               /\ data_items' # <<>>
      ]_vars

C11_Witness ==
    /\ pc = "done"
    /\ http = {"login", "submit", "poll"}
    /\ Len(hdr_calls) = 2
    /\ Len(dtl_calls) = 2

\* the errors of the Upshop side: login, submit, poll, job failure, timeout
RemoteErrors == {"LoginRequestError", "AuthTokenMissing", "SubmitRequestError",
                 "PollRequestError", "JobFailed", "JobTimeout"}

(* C12: when login yields no token, or the login, submit or a poll request   *)
(* fails, or the job fails or times out, the run ends raised with that error: *)
(* nothing was submitted without a token, no header or detail insert and no   *)
(* vendor lookup was attempted, and the summary shows five counters at 0.     *)
C12_RemoteFailureAborts ==
    /\ "submit" \in http => auth_token # "None"
    /\ error \in RemoteErrors =>
          /\ pc \in {"finally", "done"}
          /\ outcome = "raised"
          /\ ~InsertAttempted
          /\ vendor_cache = EmptyCache
          /\ TMP_REC_BAT = <<>> /\ TMP_REC_DTL = <<>>
          /\ totals = ZeroTotals
          /\ pc = "done" => summary = <<ZeroTotals>>
          /\ error \in {"LoginRequestError", "AuthTokenMissing"} =>
                (auth_token = "None" /\ http = {"login"})
          /\ error = "SubmitRequestError" => http = {"login", "submit"}
          /\ error \in {"PollRequestError", "JobFailed", "JobTimeout"} =>
                http = {"login", "submit", "poll"}

C12_Witness ==
    /\ pc = "done"
    /\ error = "JobTimeout"
    /\ outcome = "raised"
    /\ summary = <<ZeroTotals>>

(* C13: when the run has ended, on whatever path, every database connection  *)
(* opened during the run has been closed.                                     *)
C13_EveryConnectionClosed == pc = "done" => db_sessions = 0

(* C14: every exit of the try block of run_import, by return or by          *)
(* exception, goes to the finally clause, which always runs to its end; there *)
(* the "Run summary" line has been written exactly once, with the final value *)
(* of the five counters, also when conn.close() raised; before that point no  *)
(* summary has been written.                                                  *)
C14_SummaryOnceAtExit ==
    /\ pc = "done" => summary = <<totals>>
    /\ pc # "done" => summary = <<>>
    /\ outcome # "running" => pc \in {"finally", "done"}
    /\ pc = "finally" => (outcome # "running" /\ ENABLED Finally)

\* a run that imported a header row and whose conn.close() raised
C14_Witness ==
    /\ pc = "done"
    /\ conn = "open"
    /\ outcome = "returned"
    /\ totals.hdr_inserts > 0
    /\ summary = <<totals>>

\* the job has finished and its result set is empty
EmptyResult == data_items = <<>> /\ "poll" \in http /\ error = "None"

(* C15: when the finished job's result set is empty, the step after the      *)
(* download returns from run_import: no error is raised, the five counters    *)
(* are 0, no header insert, detail insert or vendor lookup has been           *)
(* attempted, and the run then ends with a summary of zeros.                  *)
C15_EmptyResultEndsCleanly ==
    [][ /\ (pc = "download" /\ EmptyResult) =>
              /\ pc' = "finally"
              /\ outcome' = "returned"
              /\ error' = "None"
              /\ totals' = ZeroTotals
              /\ ~InsertAttempted'
              /\ vendor_cache' = EmptyCache
        /\ (pc = "finally" /\ EmptyResult) =>
              /\ pc' = "done"
              /\ outcome' = "returned"
              /\ error' = "None"
              /\ summary' = <<ZeroTotals>>
              /\ ~InsertAttempted'
              /\ vendor_cache' = EmptyCache
      ]_vars

C15_Witness ==
    /\ pc = "done"
    /\ EmptyResult
    /\ outcome = "returned"
    /\ summary = <<ZeroTotals>>

\* the texts that read "finished" once trimmed and lower-cased
FinishedSpellings == { <<"f", "i", "n", "i", "s", "h", "e", "d">>,
                       <<" ", " ", "F", "i", "n", "i", "s", "h", "e", "d", " ">>,
                       <<"F", "I", "N", "I", "S", "H", "E", "D">> }

\* the texts that read failed, error, cancelled or canceled once trimmed and
\* lower-cased
FailureSpellings == { <<"f", "a", "i", "l", "e", "d">>,
                      <<"E", "r", "r", "o", "r">>,
                      <<"c", "a", "n", "c", "e", "l", "l", "e", "d">>,
                      <<"c", "a", "n", "c", "e", "l", "e", "d">> }

\* the polls that got a reply
Answered == { i \in 1..Len(polls) : polls[i].ended # "PollRequestError" }

\* the poll that ended the call, if the call has ended
LastPollEnds ==
    /\ \A i \in 1..Len(polls) : polls[i].ended # "sleep" => i = Len(polls)
    /\ polls # <<>> =>
          LET p == polls[Len(polls)]
          IN  /\ p.ended = "sleep" => pc = "wait_for_job"
              /\ p.ended = "returned" => (pc = "download" /\ data_items = p.data)
              /\ p.ended \notin {"sleep", "returned"} =>
                    (pc = "finally" /\ outcome = "raised" /\ error = p.ended)

\* a poll with this text as its status ends the call this way
DecidedBy(text, p) ==
    /\ text \in FinishedSpellings <=> p.ended = "returned"
    /\ text \in FailureSpellings <=> p.ended = "JobFailed"
    /\ text \notin FinishedSpellings \cup FailureSpellings =>
          /\ p.ended \in {"sleep", "JobTimeout"}
          /\ p.ended = "JobTimeout" <=> p.at > TimeoutTicks

(* C16: the call returns the payload of the first poll whose "status" field, *)
(* trimmed and lower-cased, is finished, raises the job-failed error at the   *)
(* first poll whose "status" field reads failed, error, cancelled or          *)
(* canceled, and on any other, empty or missing "status" field polls again    *)
(* until the timeout.                                                         *)
C16_StatusFieldDecides ==
    /\ LastPollEnds
    /\ \A i \in Answered : DecidedBy(polls[i].status, polls[i])

\* the text the loop goes by: the "status" field, or the "state" field when
\* the "status" field is missing or empty
EffectiveStatus(p) == IF p.status \in {None, <<>>} THEN p.state ELSE p.status

(* C16 as amended: the same, decided by the "status" field of the reply or,  *)
(* when that field is missing or empty, by its "state" field: a reply with    *)
(* no status and state "finished" ends the call with success.                 *)
C16_EffectiveStatusDecides ==
    /\ LastPollEnds
    /\ \A i \in Answered : DecidedBy(EffectiveStatus(polls[i]), polls[i])

\* a first poll that is not terminal, then "  Finished " with a result set
C16_Witness ==
    /\ Len(polls) = 2
    /\ polls[1].ended = "sleep"
    /\ polls[2].status = <<" ", " ", "F", "i", "n", "i", "s", "h", "e", "d", " ">>
    /\ polls[2].ended = "returned"
    /\ pc = "download"
    /\ data_items # <<>>

\* the call ended with the timeout error at its last poll: every poll before
\* it came in time and none was terminal, the last one came after the timeout
\* and the error carries its status text
TimedOutAtLastPoll ==
    LET n == Len(polls)
    IN  /\ n > 0
        /\ polls[n].ended = "JobTimeout"
        /\ polls[n].at > TimeoutTicks
        /\ polls[n].carried = EffectiveStatus(polls[n])
        /\ EffectiveStatus(polls[n]) \notin FinishedSpellings \cup FailureSpellings
        /\ \A i \in 1..(n - 1) :
              /\ polls[i].ended = "sleep"
              /\ polls[i].at <= TimeoutTicks
              /\ polls[i].at < polls[i + 1].at

(* C17: polling always terminates. When every poll request returns and each  *)
(* turn of the loop takes at least the poll interval, the call leaves the     *)
(* loop; it never sends more polls than fit in the timeout, and when no poll  *)
(* reports a terminal status it raises the timeout error, carrying the status *)
(* of the last poll, as soon as a poll returns after the timeout.             *)
C17_PollingTerminates ==
    /\ <>(pc # "wait_for_job")
    /\ [](Len(polls) <= TimeoutTicks + 2)
    /\ [](error = "JobTimeout" => TimedOutAtLastPoll)
    /\ []((polls # <<>> /\ polls[Len(polls)].at > TimeoutTicks) => pc # "wait_for_job")

\* the longest call: a poll in every interval, none terminal, then the timeout
C17_Witness ==
    /\ Len(polls) = TimeoutTicks + 2
    /\ error = "JobTimeout"
    /\ pc = "finally"
    /\ TimedOutAtLastPoll

\* the normalized status of the poll before poll i; none before the first
PrevStatus(i) == IF i = 1 THEN None ELSE polls[i - 1].val

\* the polls whose normalized status differs from that of the poll before
StatusChanges == { i \in Answered : polls[i].val # PrevStatus(i) }

RECURSIVE ChangesUpTo(_)
\* the status changes among the first n polls, in order
ChangesUpTo(n) ==
    IF n = 0 THEN <<>>
    ELSE IF n \in StatusChanges
         THEN Append(ChangesUpTo(n - 1), [from |-> PrevStatus(n), to |-> polls[n].val])
         ELSE ChangesUpTo(n - 1)

(* C18: the "Job status changed" events of a call are exactly the changes of *)
(* the normalized status between consecutive polls, in order, the first       *)
(* status counting as a change from none: one event per change, and no event  *)
(* for a poll whose normalized status equals that of the poll before.         *)
C18_OneEventPerStatusChange ==
    /\ status_events = ChangesUpTo(Len(polls))
    /\ Len(status_events) = Cardinality(StatusChanges)

\* three polls: the second repeats the status of the first, the third changes it
C18_Witness ==
    /\ Len(polls) = 3
    /\ polls[2].val = polls[1].val
    /\ polls[3].val # polls[2].val
    /\ 3 \in Answered
    /\ Len(status_events) = 2

\* the calls of get_vendor_name_cached that sent the query to VENDOR_TAB
Queries == { n \in 1..Len(vendor_lookups) : vendor_lookups[n].queried }

\* the cache entry of a key before call n: the name got by the earlier query
\* of that key
CachedBefore(n) ==
    { vendor_lookups[m].name : m \in { q \in Queries :
                                         q < n /\ vendor_lookups[q].key = vendor_lookups[n].key } }

(* C19: in one run the VENDOR_TAB query is sent at most once per vendor key: *)
(* a call queries exactly when no earlier call queried its key, and a call    *)
(* for a key queried before returns the name found then, be it a name, an     *)
(* empty "not found" or an empty "lookup failed"; the cache holds exactly the *)
(* keys queried.                                                              *)
C19_OneQueryPerVendor ==
    /\ \A n \in 1..Len(vendor_lookups) :
          /\ vendor_lookups[n].queried <=> CachedBefore(n) = {}
          /\ ~vendor_lookups[n].queried => CachedBefore(n) = {vendor_lookups[n].name}
    /\ \A m, n \in Queries : vendor_lookups[m].key = vendor_lookups[n].key => m = n
    /\ { vendor_lookups[n].key : n \in Queries } = DOMAIN vendor_cache

\* two header rows of one vendor after a single query, which failed: the
\* second call found the "lookup failed" entry
C19_Witness ==
    /\ Len(TMP_REC_BAT) = 2
    /\ TMP_REC_BAT[1].F27 = TMP_REC_BAT[2].F27
    /\ Len(vendor_lookups) = 2
    /\ vendor_lookups[1].queried /\ vendor_lookups[1].failed
    /\ ~vendor_lookups[2].queried
    /\ vendor_lookups[2].name = <<>>

----------------------------------------------------------------------------
(* C21..C30: the cache and the staging tables over a run, the final report,  *)
(* the requests, the status window and the other versions of the script       *)

(* C21: within a run the vendor cache only grows: a step never removes an    *)
(* entry and never changes the value of one; the cache is empty until the     *)
(* record loop of the run starts.                                             *)
C21_CacheOnlyGrows ==
    [][ /\ \A k \in DOMAIN vendor_cache :
              /\ k \in DOMAIN vendor_cache'
              /\ vendor_cache'[k] = vendor_cache[k]
        /\ StageOf(pc) < StageOf("for_item") => vendor_cache = EmptyCache
      ]_vars

\* both vendors have an entry at the end of the run
C21_Witness ==
    /\ pc = "done"
    /\ Cardinality(DOMAIN vendor_cache) = 2
    /\ Len(hdr_calls) = 2

\* the header rows and the detail rows the calls that returned were to write
HdrRowsOfReturned == { j \in DOMAIN hdr_calls : ~hdr_calls[j].raised }
DtlRowsOfReturned == { j \in DOMAIN dtl_calls : ~dtl_calls[j].raised }

(* C22: each insert is committed on its own: at every point of the run the   *)
(* staging tables hold one row for each insert call that returned, in call    *)
(* order, none of them lost to a later failure, and no row of a call that     *)
(* raised and was counted as skipped.                                         *)
C22_RowsAreTheInsertsThatReturned ==
    /\ Len(TMP_REC_BAT) = Cardinality(HdrRowsOfReturned)
    /\ Len(TMP_REC_DTL) = Cardinality(DtlRowsOfReturned)
    /\ Len(TMP_REC_BAT) = totals.hdr_inserts
    /\ Len(TMP_REC_DTL) = totals.dtl_inserts

----------------------------------------------------------------------------
\* the requests a run has made to one endpoint
RequestsTo(context) == { n \in DOMAIN requests : requests[n].context = context }

\* a reply that is not a 2xx response with a JSON body
MalformedReply(r) == r.kind # "response" \/ r.code \notin 200..299 \/ ~r.json

(* C24: the job creation returns the job id of the response or fails: a      *)
(* non-2xx response or a malformed body (not JSON, or without a job id)      *)
(* makes it fail and the run abort, so every poll targets a job id that the  *)
(* submit response returned.                                                 *)
C24_SubmitReturnsJobIdOrFails ==
    /\ \A n \in RequestsTo("submit") :
          MalformedReply(requests[n]) =>
             requests[n].raised /\ outcome = "raised" /\ RequestsTo("poll") = {}
    /\ \A n \in RequestsTo("poll") : requests[n].job \in JobIds
    /\ pc = "wait_for_job" => job_id \in JobIds

\* why the HTTP layer failed a request: no answer in time, no connection, a
\* status code outside 2xx, or a 2xx body that is not JSON
CauseOf(r) ==
    IF r.kind = "timeout" THEN "timeout"
    ELSE IF r.kind = "network" THEN "network"
    ELSE IF r.code \notin 200..299 THEN "status"
    ELSE IF ~r.json THEN "body"
    ELSE "none"

\* the titles under which request_json reports the replies of one cause
CategoriesOf(cause) ==
    UNION { { request_json(reply, f).titles[k] :
                k \in DOMAIN request_json(reply, f).titles } :
            <<reply, f>> \in { x \in Replies({"None"}) \X BOOLEAN :
                                 CauseOf(x[1]) = cause } }

(* C25: for login, submit and every poll, a timeout or other network error,  *)
(* a non-2xx status and a 2xx body that is not JSON are each fatal to the    *)
(* call and re-raised, and no title one of these causes is reported under is *)
(* a title another of them is reported under.                                *)
C25_FailuresAreDistinctCategories ==
    \A n \in DOMAIN requests :
       CauseOf(requests[n]) # "none" =>
          /\ requests[n].raised
          /\ n = Len(requests) /\ outcome = "raised"
          /\ requests[n].titles # <<>>
          /\ \A k \in DOMAIN requests[n].titles :
                \A other \in {"timeout", "network", "status", "body"} \ {CauseOf(requests[n])} :
                   requests[n].titles[k] \notin CategoriesOf(other)

----------------------------------------------------------------------------
\* the run and its window are at rest: the worker has reported, the Tk loop has
\* run its callback and taken every message
Reported == pc = "reported" /\ ui_calls = <<>> /\ ui_taken = Len(ui_queue)

\* the errors and warnings put in the queue, and the error of the callback
Listed == SelectSeq(ui_queue, LAMBDA m : m.level \in {"WARN", "ERROR"})

\* the user has not cleared the message list of what the run reported
Uncleared ==
    Len(window.listbox) = Len(Listed) + (IF outcome = "raised" THEN 1 ELSE 0)

\* the three kinds of run
EmptyRun == outcome = "returned" /\ data_items = <<>>
FailedRun == outcome = "raised"
PartialRun == /\ outcome = "returned"
              /\ totals.hdr_inserts > 0
              /\ totals.hdr_skipped + totals.dtl_skipped > 0

\* what the window shows, as the user reads it
ShowsFailure ==
    \E k \in DOMAIN window.listbox : window.listbox[k] = Error("Import failed")
ShowsEmpty ==
    /\ ~ShowsFailure
    /\ window.listbox = <<>>
    /\ window.msg \in {"No approved orders", "No orders were imported"}
ShowsPartial ==
    /\ ~ShowsFailure
    /\ window.msg \in {"Done", "order(s) were imported"}
    /\ \E k \in DOMAIN window.listbox :
          window.listbox[k] \in {Error("Skipped TMP_REC_BAT"), Error("Skipped TMP_REC_DTL")}

(* C23: the final report tells apart a run that imported nothing because the *)
(* result set was empty, a run that failed outright and a run that imported  *)
(* some orders while skipping others: each kind ends on a window of its own, *)
(* and no window is the report of two kinds.                                 *)
C23_ThreeKindsOfReport ==
    /\ Reported /\ Uncleared =>
          /\ EmptyRun => ShowsEmpty
          /\ FailedRun => ShowsFailure
          /\ PartialRun => ShowsPartial
    /\ ~(ShowsEmpty /\ ShowsFailure)
    /\ ~(ShowsEmpty /\ ShowsPartial)
    /\ ~(ShowsFailure /\ ShowsPartial)

\* a run that imported one order and skipped a row is reported, the queue
\* having been emptied after the callback ran
C23_Witness ==
    /\ Reported /\ Uncleared
    /\ PartialRun
    /\ window.msg = "order(s) were imported"
    /\ ShowsPartial

----------------------------------------------------------------------------
\* a step of the Tk loop: the window changes, messages are taken from the
\* queue, or a scheduled callback is run
UIStep ==
    window' # window \/ ui_taken' # ui_taken \/ Len(ui_calls') < Len(ui_calls)

\* the messages pump_queue has taken so far
Taken == SubSeq(ui_queue, 1, ui_taken)

\* s is the beginning of t
IsPrefix(s, t) == Len(s) <= Len(t) /\ SubSeq(t, 1, Len(s)) = s

(* C26: the status window only observes the run through the queue the       *)
(* worker feeds: no step of the Tk loop (pumping the queue, running the      *)
(* worker's callback, Clear, Close) changes the run counters, the vendor     *)
(* cache, the seen keys, the connection or the staging tables, whatever the  *)
(* interleaving; the queue only grows, and the window shows nothing but      *)
(* messages taken from it and the worker's final title.                      *)
C26_UIOnlyObservesQueue ==
    /\ [][/\ UIStep => UNCHANGED <<pc, totals, vendor_cache, seen_headers, line_number,
                                   idx, conn, db_sessions, tx_pending, TMP_REC_BAT,
                                   TMP_REC_DTL, data_items, outcome, error, summary>>
          /\ IsPrefix(ui_queue, ui_queue')
          /\ ui_taken <= ui_taken' /\ ui_taken' <= Len(ui_queue)]_vars
    /\ [](/\ \A k \in DOMAIN window.listbox :
               \/ \E n \in DOMAIN Taken : window.listbox[k] = Taken[n]
               \/ window.listbox[k] = Error("Import failed") /\ pc = "reported"
          /\ \/ window.msg = "Starting..."
             \/ \E n \in DOMAIN Taken : window.msg = Taken[n].msg
             \/ pc = "reported" /\ window.msg = WorkerTitle(totals, outcome = "raised"))

\* while the worker is in the loop, the window has taken the error of a
\* skipped header and the user has cleared the list
C26_Witness ==
    /\ pc = "send_recdtl"
    /\ totals.hdr_skipped > 0
    /\ ui_taken = Len(ui_queue)
    /\ window.listbox = <<>>

----------------------------------------------------------------------------
\* the number n is the order identifier id: id is a numeral that reads n
IsOrderNumber(id, n) ==
    /\ id # None /\ id # <<>>
    /\ \A i \in 1..Len(id) : id[i] \in DOMAIN DigitValue
    /\ DecimalValue(id) = n

(* C27: for every record the transaction number written to the header row   *)
(* (F1032, a text) and the one written to the detail row (F1032, a number)   *)
(* both are the record's order identifier, whatever the identifier: numeric, *)
(* not numeric, empty or missing.                                            *)
C27_PlaceholderIsOrderIdentifier ==
    /\ \A h \in DOMAIN TMP_REC_BAT : TMP_REC_BAT[h].F1032 = TMP_REC_BAT[h].F91
    /\ \A d \in DOMAIN TMP_REC_DTL :
          IsOrderNumber(data_items[TMP_REC_DTL[d].F1101].case_order_number,
                        TMP_REC_DTL[d].F1032)

----------------------------------------------------------------------------
(* C28: in the variant import_orders_into_smsNW.py a header or detail insert *)
(* that fails for one record, an empty item identifier included, is caught   *)
(* at the record: the run is not unwound and the records that follow are     *)
(* still processed.                                                          *)
C28_InsertFailureDoesNotAbortNW ==
    /\ error # "InsertError"
    /\ pc \in {"finally", "done"} /\ data_items # <<>> =>
          /\ Len(dtl_calls) = Len(data_items)
          /\ \A i \in 1..Len(data_items) : DtlCalledFor(i)

(* C29: in the variant import_orders_into_smsNW.py a finished job with an    *)
(* empty result set ends the run cleanly: nothing is raised and the run is   *)
(* not reported as failed.                                                   *)
C29_EmptyResultEndsCleanlyNW ==
    pc \in {"finally", "done"} /\ data_items = <<>> =>
       outcome = "returned" /\ error = "None"

----------------------------------------------------------------------------
\* the columns of the rows run_import's model keeps
HeaderColumns == {"F1032", "F27", "F91", "F334"}
DetailColumns == {"F1032", "F1101", "F01"}

\* a row cut to some of its columns
Columns(row, cols) == [c \in cols |-> row[c]]

\* the step the Working Version has taken is the step run_import takes from
\* the same state with the same answers of the server, rows being compared on
\* the columns run_import's model keeps
SameStepAsRunImport ==
    \/ /\ pc = "download"
       /\ pc' = IF data_items = <<>> THEN "finally" ELSE "for_item"
       /\ totals' = IF data_items = <<>> THEN [totals EXCEPT !.items_seen = 0] ELSE totals
       /\ UNCHANGED <<hdr_calls, dtl_calls, TMP_REC_BAT, TMP_REC_DTL, vendor_cache>>
    \/ /\ pc = "for_item" /\ idx <= Len(data_items)
       /\ LET item == data_items[idx]
              key  == vendor_case_key(item)
              seen == [totals EXCEPT !.items_seen = @ + 1]
          IN  IF NeedsHeader(key, seen_headers)
              THEN \E db \in DbAnswers :
                     LET r == send_rechdr(item, vendor_cache, tx_pending, db)
                         new == RowsOf("TMP_REC_BAT", r.committed)
                     IN  /\ vendor_cache' = r.cache
                         /\ Len(TMP_REC_BAT') = Len(TMP_REC_BAT) + Len(new)
                         /\ \A n \in DOMAIN new :
                               Columns(TMP_REC_BAT'[Len(TMP_REC_BAT) + n], HeaderColumns)
                                  = new[n]
                         /\ TMP_REC_DTL' = TMP_REC_DTL
                         /\ totals' = TotalsAfterRechdr(seen, r.raised, r.rows_affected)
                         /\ seen_headers' = SeenAfterRechdr(seen_headers, key, r.raised)
                         /\ hdr_calls' = Append(hdr_calls,
                                                [item |-> idx, raised |-> r.raised])
                         /\ pc' = PcAfterRechdr(r.raised)
              ELSE /\ totals' = seen
                   /\ pc' = "send_recdtl"
                   /\ UNCHANGED <<vendor_cache, TMP_REC_BAT, TMP_REC_DTL, seen_headers,
                                  hdr_calls>>
    \/ /\ pc = "send_recdtl"
       /\ \E db \in DbAnswers :
             LET r == send_recdtl(data_items[idx], line_number, tx_pending, db)
                 new == RowsOf("TMP_REC_DTL", r.committed)
             IN  /\ Len(TMP_REC_DTL') = Len(TMP_REC_DTL) + Len(new)
                 /\ \A n \in DOMAIN new :
                       Columns(TMP_REC_DTL'[Len(TMP_REC_DTL) + n], DetailColumns) = new[n]
                 /\ TMP_REC_BAT' = TMP_REC_BAT
                 /\ totals' = TotalsAfterRecdtl(totals, r.raised, r.rows_affected)
                 /\ dtl_calls' = Append(dtl_calls, [item |-> idx, line |-> line_number,
                                                    raised |-> r.raised])
                 /\ pc' = PcAfterRecdtl(r.raised)
       /\ line_number' = NextLineNumber(line_number)
       /\ idx' = idx + 1
    \/ /\ pc = "for_item" /\ idx > Len(data_items)
       /\ pc' = "finally"
       /\ UNCHANGED <<totals, hdr_calls, dtl_calls, TMP_REC_BAT, TMP_REC_DTL>>
    \/ /\ pc = "finally"
       /\ pc' = "done"
       /\ summary' = Append(summary, totals)
       /\ UNCHANGED <<totals, hdr_calls, dtl_calls, TMP_REC_BAT, TMP_REC_DTL>>

(* C30: for the same result set and the same answers of the database, main   *)
(* of the Working Version makes the header and detail insert attempts that   *)
(* run_import makes, in the same order, writes rows that are the 19 and 12   *)
(* values run_import writes, field for field, and ends with the same five    *)
(* counters.                                                                 *)
C30_WorkingVersionIsRunImport ==
    /\ [][SameStepAsRunImport]_vars
    /\ [](/\ \A h \in DOMAIN TMP_REC_BAT :
               TMP_REC_BAT[h] = rechdr_values(TMP_REC_BAT[h].F91, TMP_REC_BAT[h].F27,
                                              TMP_REC_BAT[h].F334)
          /\ \A d \in DOMAIN TMP_REC_DTL :
               TMP_REC_DTL[d] = recdtl_values(data_items[TMP_REC_DTL[d].F1101],
                                              TMP_REC_DTL[d].F1101))

----------------------------------------------------------------------------
(* C31: the timeout is looked at only after a poll whose status is not       *)
(* terminal. A poll that reports finished ends the call with its payload and  *)
(* a poll that reports a failure status ends it with the job-failed error,    *)
(* also when the reply arrives after the timeout; the timeout error is never  *)
(* raised at a poll that reported a terminal status.                          *)
C31_TerminalStatusBeatsTimeout ==
    \A i \in 1..Len(polls) :
       /\ polls[i].val \in terminal_success => polls[i].ended = "returned"
       /\ polls[i].val \in terminal_failure => polls[i].ended = "JobFailed"
       /\ polls[i].ended = "JobTimeout" =>
             polls[i].val \notin terminal_success \cup terminal_failure

\* a reply that came after the timeout and reported finished: the call returned
\* its result set
C31_Witness ==
    /\ polls # <<>>
    /\ polls[Len(polls)].at > TimeoutTicks
    /\ polls[Len(polls)].val \in terminal_success
    /\ polls[Len(polls)].ended = "returned"
    /\ pc = "download"
    /\ data_items # <<>>

----------------------------------------------------------------------------
\* the detail rows of the order of a header row: the rows whose transaction
\* number is the integer of the header's order number
DetailRowsOf(hdr) ==
    { d \in DOMAIN TMP_REC_DTL : TMP_REC_DTL[d].F1032 = safe_int(hdr.F91, 0) }

(* C32: when the run has ended, every order that got a header row in         *)
(* TMP_REC_BAT has at least one detail row in TMP_REC_DTL, for every result   *)
(* set and every pattern of skipped details.                                  *)
C32_NoHeaderWithoutDetail ==
    pc = "done" =>
       \A h \in DOMAIN TMP_REC_BAT : DetailRowsOf(TMP_REC_BAT[h]) # {}

----------------------------------------------------------------------------
\* the worker has reported, the Tk loop has run its callback and pump_queue
\* has taken everything run_import put in the queue
WorkerOverAndQueuePumped ==
    /\ pc = "reported"
    /\ ui_calls = <<>>
    /\ ui_taken = Len(ui_queue)

(* C33: under every interleaving of the worker and the Tk loop, once the     *)
(* worker is over and every queued event has been pumped, the status line of  *)
(* the window is the title the worker scheduled (Done, No approved orders,    *)
(* No orders imported, Import failed): no progress event overwrites it.       *)
C33_HeadlineIsFinalTitle ==
    WorkerOverAndQueuePumped =>
       window.msg = WorkerTitle(totals, outcome = "raised")

----------------------------------------------------------------------------
(* C34: while the worker is running the window cannot be closed. The Close   *)
(* button is disabled and the window stays open until the Tk loop has run     *)
(* the done() or error() the worker scheduled; only then can it be closed.    *)
C34_NoCloseWhileWorking ==
    /\ pc # "reported" => (~window.close_enabled /\ window.open)
    /\ window.close_enabled => ui_calls = <<>>
    /\ ~window.open => window.close_enabled

\* the worker is in the record loop, its events have been pumped, an error is
\* listed, and the window is open with Close disabled
C34_Witness ==
    /\ pc = "send_recdtl"
    /\ ui_taken > 0
    /\ window.errors_count > 0
    /\ window.open
    /\ ~window.close_enabled

----------------------------------------------------------------------------
(* C36: a finished payload that brings no records, its "data" field being    *)
(* absent or null, is handled like an empty result set: the run leaves the    *)
(* try block without an exception and with every counter at 0.                *)
C36_NoDataIsEmptyResult ==
    [][(pc = "download" /\ data_items' = <<>>) =>
          /\ pc' = "finally"
          /\ outcome' = "returned"
          /\ error' = "None"
          /\ totals' = ZeroTotals]_vars

----------------------------------------------------------------------------
(* C35: every run started with the window eventually makes it closable.      *)
(* Whatever the outcome of run_import (orders imported, empty result, a       *)
(* connection, login or job failure, the timeout, any other exception), the   *)
(* worker eventually schedules done() or error() and the Close button is      *)
(* eventually enabled and stays so, when every call of the worker returns     *)
(* and the Tk loop keeps running.                                             *)
C35_WindowBecomesClosable ==
    /\ <>(pc = "reported")
    /\ <>[](window.close_enabled)

\* a run ended by an exception outside every handler of run_import: error()
\* has run and Close is enabled
C35_Witness ==
    /\ pc = "reported"
    /\ error = "TypeError"
    /\ ui_calls = <<>>
    /\ window.close_enabled
    /\ window.errors_count > 0
====
